---- MODULE Spec2Model ----
(***************************************************************************)
(* Model of the Mollusk instruction execution harness: account compilation, *)
(* the message executor, the facade entry points (single instruction,       *)
(* instruction chain, transaction) and the stateful MolluskContext.         *)
(* The execution engine (system program inside an invoke context) is        *)
(* modelled by what the harness observes of it: the result, the compute     *)
(* units consumed and the writes left in the transaction context.           *)
(***************************************************************************)
EXTENDS Integers, Sequences, FiniteSets, TLC

\* ------------------------------------------------------------------ bounds
MaxAccounts == 3
MaxInstructions == 2
MaxLamports == 2
MaxCalls == 2
MaxNesting == 2
MaxTraceLen == 6

\* ------------------------------------------------------- program constants
\* trezoa_system_program::system_processor::DEFAULT_COMPUTE_UNITS
DEFAULT_COMPUTE_UNITS == 150
\* The units the primary test program consumes outside its CPIs
PRIMARY_COMPUTE_UNITS == 50
\* `instruction_index as u8`
U8_RANGE == 256

\* -------------------------------------------------------------------- keys
SYSTEM_PROGRAM == "SystemProgram"
NATIVE_LOADER == "NativeLoader"
LOADER_V3 == "LoaderV3"
\* The program a test loads with Mollusk::new(&program_id, "test_program_primary")
PRIMARY == "Primary"
\* The id under which a test adds test_program_instructions_sysvar
IX_SYSVAR_PROGRAM == "IxSysvarProgram"
\* precompile_keys::ED25519_PROGRAM
ED25519_PROGRAM == "Ed25519Program"
\* A program id no program was added under
UNCACHED_PROGRAM == "UncachedProgram"
LOADER_V2 == "LoaderV2"
SYSVAR_OWNER == "Sysvar"
CLOCK == "Clock"
INSTRUCTIONS_SYSVAR == "Instructions"
Alice == "Alice"
Bob == "Bob"
Carol == "Carol"

\* Byte order of the pubkeys (Pubkey::default() is the system program id).
KeyOrder ==
    <<SYSTEM_PROGRAM, Alice, Bob, Carol, PRIMARY, CLOCK, INSTRUCTIONS_SYSVAR,
      IX_SYSVAR_PROGRAM, ED25519_PROGRAM, UNCACHED_PROGRAM>>


\* ---------------------------------------------------------------- accounts
NewAccount(lamports, data, owner, executable) ==
    [lamports |-> lamports, data |-> data, owner |-> owner,
     executable |-> executable, rent_epoch |-> 0]

\* Account::default()
DefaultAccount == NewAccount(0, <<>>, SYSTEM_PROGRAM, FALSE)

\* Account::new(lamports, 0, &system_program::id())
SystemAccount(lamports) == NewAccount(lamports, <<>>, SYSTEM_PROGRAM, FALSE)

Keyed(key, account) == [key |-> key, account |-> account]

\* accounts.iter().find(|(k, _)| k == key): index of the first entry, 0 if none
RECURSIVE FindFrom(_, _, _)
FindFrom(accounts, key, i) ==
    IF i > Len(accounts) THEN 0
    ELSE IF accounts[i].key = key THEN i
    ELSE FindFrom(accounts, key, i + 1)

FindIndex(accounts, key) == FindFrom(accounts, key, 1)

KeysOf(accounts) == {accounts[i].key : i \in 1..Len(accounts)}

\* ------------------------------------------------------------ instructions
Meta(pubkey, is_signer, is_writable) ==
    [pubkey |-> pubkey, is_signer |-> is_signer, is_writable |-> is_writable]

\* trezoa_system_interface::instruction::transfer
Transfer(from, to, amount) ==
    [program_id |-> SYSTEM_PROGRAM,
     accounts |-> <<Meta(from, TRUE, TRUE), Meta(to, FALSE, TRUE)>>,
     data |-> [op |-> "transfer", amount |-> amount]]

\* A transfer whose signer flag was cleared (test_missing_signer_fails).
UnsignedTransfer(from, to, amount) ==
    [program_id |-> SYSTEM_PROGRAM,
     accounts |-> <<Meta(from, FALSE, TRUE), Meta(to, FALSE, TRUE)>>,
     data |-> [op |-> "transfer", amount |-> amount]]

\* trezoa_system_interface::instruction::create_account on a funded target:
\* the engine moves the lamports and then fails in the allocate step.
CreateAccount(from, to, amount) ==
    [program_id |-> SYSTEM_PROGRAM,
     accounts |-> <<Meta(from, TRUE, TRUE), Meta(to, TRUE, TRUE)>>,
     data |-> [op |-> "create_account", amount |-> amount]]

\* The primary test program's instruction that transfers each of `amounts`
\* from `from` to `to` by a CPI into the system program (bpf_program.rs
\* test_inner_instructions_transfer) and returns the amounts as return data.
CpiTransfers(from, to, amounts) ==
    [program_id |-> PRIMARY,
     accounts |-> <<Meta(from, TRUE, TRUE), Meta(to, FALSE, TRUE),
                    Meta(SYSTEM_PROGRAM, FALSE, FALSE)>>,
     data |-> [op |-> "cpi_transfers", amounts |-> amounts]]

\* The instruction data of test_program_instructions_sysvar: the signer and
\* writable flag of every account but the last, the instructions sysvar.
MetaFlags(metas) ==
    [j \in 1..Len(metas) |-> <<metas[j].is_signer, metas[j].is_writable>>]

\* An instruction of test_program_instructions_sysvar: the output account,
\* the extra accounts and the instructions sysvar (instructions_sysvar.rs
\* build_instruction).
SysvarInstruction(output, extra_metas) ==
    [program_id |-> IX_SYSVAR_PROGRAM,
     accounts |-> <<Meta(output, FALSE, TRUE)>> \o extra_metas
                  \o <<Meta(INSTRUCTIONS_SYSVAR, FALSE, FALSE)>>,
     data |-> [op |-> "instructions_sysvar",
               flags |-> MetaFlags(<<Meta(output, FALSE, TRUE)>> \o extra_metas)]]

\* The instruction with the writable flag of its second account flipped
\* after its data was built (test_override_sysvar_actual).
Flipped(ix) == [ix EXCEPT !.accounts[2].is_writable = ~@]

\* An instruction of the ed25519 precompile over a signature that verifies
\* or does not.
Ed25519Verify(valid) ==
    [program_id |-> ED25519_PROGRAM, accounts |-> <<>>,
     data |-> [op |-> "ed25519", valid |-> valid]]

\* An instruction of a program that was never added to the harness
UncachedInstruction ==
    [program_id |-> UNCACHED_PROGRAM, accounts |-> <<Meta(Alice, FALSE, TRUE)>>,
     data |-> [op |-> "noop"]]

MetaKeys(ix) == {ix.accounts[i].pubkey : i \in 1..Len(ix.accounts)}

ProgramIds(instructions) ==
    {instructions[i].program_id : i \in 1..Len(instructions)}

ReferencedKeys(instructions) ==
    ProgramIds(instructions) \cup
    UNION {MetaKeys(instructions[i]) : i \in 1..Len(instructions)}

\* --------------------------------------------------------- program results
Ok == [ok |-> TRUE]
Err(e) == [ok |-> FALSE, err |-> e]
Custom(code) == [name |-> "Custom", code |-> code]

\* InstructionError values the engine of the model produces.
RESULT_WITH_NEGATIVE_LAMPORTS == Custom(1)
ACCOUNT_ALREADY_IN_USE == Custom(0)
MISSING_REQUIRED_SIGNATURE == [name |-> "MissingRequiredSignature", code |-> 0]
COMPUTATIONAL_BUDGET_EXCEEDED == [name |-> "ComputationalBudgetExceeded", code |-> 0]
READONLY_LAMPORT_CHANGE == [name |-> "ReadonlyLamportChange", code |-> 0]
INVALID_ACCOUNT_OWNER == [name |-> "InvalidAccountOwner", code |-> 0]
UNSUPPORTED_PROGRAM_ID == [name |-> "UnsupportedProgramId", code |-> 0]
ACCOUNT_DATA_TOO_SMALL == [name |-> "AccountDataTooSmall", code |-> 0]
INVALID_ARGUMENT == [name |-> "InvalidArgument", code |-> 0]
INVALID_INSTRUCTION_DATA == [name |-> "InvalidInstructionData", code |-> 0]
PROGRAM_FAILED_TO_COMPLETE == [name |-> "ProgramFailedToComplete", code |-> 0]
\* PrecompileError::InvalidSignature as an InstructionError
PRECOMPILE_INVALID_SIGNATURE == Custom(2)

\* ProgramError::try_from(InstructionError) succeeds
IsProgramError(e) ==
    e \notin {COMPUTATIONAL_BUDGET_EXCEEDED, READONLY_LAMPORT_CHANGE,
               PROGRAM_FAILED_TO_COMPLETE}

Success == [tag |-> "Success"]
Failure(e) == [tag |-> "Failure", error |-> e]
UnknownError(e) == [tag |-> "UnknownError", error |-> e]

\* A conversion that takes every engine error for a program error.
ProgramResultAllFailures(raw) ==
    IF raw.ok THEN Success ELSE Failure(raw.err)

\* impl From<Result<(), InstructionError>> for ProgramResult
ProgramResultFrom(raw) ==
    IF raw.ok THEN Success
    ELSE IF IsProgramError(raw.err) THEN Failure(raw.err)
    ELSE UnknownError(raw.err)

\* ProgramResult::is_ok
is_ok(program_result) == program_result.tag = "Success"

\* An is_err that is not the negation of is_ok.
is_err_as_is_ok(program_result) == is_ok(program_result)

\* ProgramResult::is_err
is_err(program_result) == ~is_ok(program_result)

\* TransactionError::InstructionError(instruction_index as u8, err)
TxErr(index, e) == [ok |-> FALSE, index |-> index, err |-> e]

\* MessageResult::extract_ix_err under map_err
extract_ix_err(raw) == IF raw.ok THEN Ok ELSE Err(raw.err)

\* MessageResult::extract_txn_program_result
extract_txn_program_result(raw) ==
    IF raw.ok THEN Success
    ELSE IF IsProgramError(raw.err)
         THEN [tag |-> "Failure", index |-> raw.index, error |-> raw.err]
         ELSE [tag |-> "UnknownError", index |-> raw.index, error |-> raw.err]

\* ------------------------------------------------------ account compilation
\* Message::new(instructions, None): privileges are the union over all
\* occurrences of a key; a program id is a key of the message.
IsSignerKey(instructions, key) ==
    \E i \in 1..Len(instructions) : \E j \in 1..Len(instructions[i].accounts) :
        /\ instructions[i].accounts[j].pubkey = key
        /\ instructions[i].accounts[j].is_signer

IsWritableKey(instructions, key) ==
    \E i \in 1..Len(instructions) : \E j \in 1..Len(instructions[i].accounts) :
        /\ instructions[i].accounts[j].pubkey = key
        /\ instructions[i].accounts[j].is_writable

\* Keys of one privilege class, in byte order.
KeyGroup(instructions, signer, writable) ==
    SelectSeq(KeyOrder, LAMBDA k :
        /\ k \in ReferencedKeys(instructions)
        /\ IsSignerKey(instructions, k) = signer
        /\ IsWritableKey(instructions, k) = writable)

\* SanitizedMessage::account_keys(): writable signers, readonly signers,
\* writable non-signers, readonly non-signers.
account_keys(instructions) ==
    KeyGroup(instructions, TRUE, TRUE) \o KeyGroup(instructions, TRUE, FALSE)
    \o KeyGroup(instructions, FALSE, TRUE) \o KeyGroup(instructions, FALSE, FALSE)

\* BorrowedInstruction { program_id, accounts: BorrowedAccountMeta { pubkey,
\* is_signer, is_writable }, data } of an instruction
BorrowedInstruction(ix) ==
    [program_id |-> ix.program_id,
     accounts |-> [j \in 1..Len(ix.accounts) |->
                     [pubkey |-> ix.accounts[j].pubkey,
                      is_signer |-> ix.accounts[j].is_signer,
                      is_writable |-> ix.accounts[j].is_writable]],
     data |-> ix.data]

\* construct_instructions_data: the instructions in order, followed by the
\* current instruction index, which starts at zero.
construct_instructions_data(borrowed) == borrowed \o <<0>>

\* instructions_sysvar::keyed_account: the data is the serialized instruction set
keyed_account(all_instructions) ==
    Keyed(INSTRUCTIONS_SYSVAR,
          NewAccount(0,
              construct_instructions_data(
                  [i \in 1..Len(all_instructions) |->
                      BorrowedInstruction(all_instructions[i])]),
              SYSVAR_OWNER, FALSE))

\* The program cache of Mollusk::new(&PRIMARY, ..): the builtins
\* (ProgramCache::new) and the added program under the default loader.
CachedPrograms == {SYSTEM_PROGRAM, PRIMARY, IX_SYSVAR_PROGRAM}

\* precompile_keys::is_precompile
is_precompile(program_id) == program_id = ED25519_PROGRAM

\* Option<T>
None == <<>>
Some(x) == <<x>>

\* ProgramCacheEntryOwner::try_from(loader_key)
ProgramCacheEntryOwner(loader_key) ==
    CASE loader_key = NATIVE_LOADER -> "NativeLoader"
      [] loader_key = LOADER_V2 -> "LoaderV2"
      [] loader_key = LOADER_V3 -> "LoaderV3"

\* ProgramCacheEntry::account_owner
account_owner(entry) ==
    CASE entry.account_owner = "NativeLoader" -> NATIVE_LOADER
      [] entry.account_owner = "LoaderV2" -> LOADER_V2
      [] entry.account_owner = "LoaderV3" -> LOADER_V3

\* ProgramCache::load_program: the entry of a cached program, of which the
\* harness reads the account owner.
load_program(program_id) ==
    IF program_id \notin CachedPrograms THEN None
    ELSE IF program_id \in {PRIMARY, IX_SYSVAR_PROGRAM}
    THEN Some([account_owner |-> ProgramCacheEntryOwner(LOADER_V3)])
    ELSE Some([account_owner |-> ProgramCacheEntryOwner(NATIVE_LOADER)])

\* MolluskError::ProgramNotCached(program_id)
ProgramNotCached(program_id) ==
    [error |-> "ProgramNotCached", program_id |-> program_id]

\* No panic
NoPanic == [error |-> "", program_id |-> ""]

\* A loader key that is the native loader for every program.
native_loader_for_all(program_id) == [panic |-> NoPanic, key |-> NATIVE_LOADER]

\* A loader key that takes a program missing from the cache for a builtin.
get_loader_key_or_native(program_id) ==
    IF is_precompile(program_id) \/ load_program(program_id) = None
    THEN [panic |-> NoPanic, key |-> NATIVE_LOADER]
    ELSE [panic |-> NoPanic, key |-> account_owner(load_program(program_id)[1])]

\* Mollusk::get_loader_key: the key it returns, or the error it panics with
get_loader_key(program_id) ==
    IF is_precompile(program_id)
    THEN [panic |-> NoPanic, key |-> NATIVE_LOADER]
    ELSE IF load_program(program_id) = None
    THEN [panic |-> ProgramNotCached(program_id), key |-> ""]
    ELSE [panic |-> NoPanic, key |-> account_owner(load_program(program_id)[1])]

\* The errors get_account_fallbacks panics with: those of get_loader_key for
\* the top-level program ids that are not among the accounts.
FallbackPanics(all_instructions, accounts) ==
    {get_loader_key(program_id).panic :
        program_id \in ProgramIds(all_instructions) \ KeysOf(accounts)}
        \ {NoPanic}

\* Mollusk::get_account_fallbacks: a function from the keys with a fallback
get_account_fallbacks(all_instructions, accounts) ==
    LET stubbed == ProgramIds(all_instructions) \ KeysOf(accounts)
        sysvar == IF INSTRUCTIONS_SYSVAR \in KeysOf(accounts) THEN {}
                  ELSE {INSTRUCTIONS_SYSVAR}
    IN [k \in stubbed \cup sysvar |->
          IF k \in stubbed
          THEN NewAccount(0, <<>>, get_loader_key(k).key, TRUE)
          ELSE keyed_account(all_instructions).account]

\* The keys build_transaction_accounts cannot resolve (AccountMissing).
MissingKeys(instructions, accounts, fallback_accounts) ==
    {k \in ReferencedKeys(instructions) :
        /\ k \notin ProgramIds(instructions)
        /\ k # INSTRUCTIONS_SYSVAR
        /\ k \notin KeysOf(accounts)
        /\ k \notin DOMAIN fallback_accounts}

\* A resolution that prefers the fallback map to the caller's account.
ResolveFallbackFirst(key, accounts, all_instructions, fallback_accounts) ==
    IF key \in DOMAIN fallback_accounts THEN fallback_accounts[key]
    ELSE IF FindIndex(accounts, key) # 0
    THEN accounts[FindIndex(accounts, key)].account
    ELSE IF key \in ProgramIds(all_instructions)
         THEN NewAccount(0, <<>>, SYSTEM_PROGRAM, TRUE)
    ELSE keyed_account(all_instructions).account

\* compile_accounts::build_transaction_accounts, for one key of the message
ResolveAccount(key, accounts, all_instructions, fallback_accounts) ==
    IF FindIndex(accounts, key) # 0
    THEN accounts[FindIndex(accounts, key)].account
    ELSE IF key \in DOMAIN fallback_accounts THEN fallback_accounts[key]
    ELSE IF key \in ProgramIds(all_instructions)
         THEN NewAccount(0, <<>>, SYSTEM_PROGRAM, TRUE)
    ELSE keyed_account(all_instructions).account

\* A compilation with one transaction account per occurrence of a key in
\* the instructions, in order of occurrence.
RECURSIVE FlatKeys(_, _)
FlatKeys(instructions, i) ==
    IF i > Len(instructions) THEN <<>>
    ELSE <<instructions[i].program_id>>
         \o [j \in 1..Len(instructions[i].accounts) |-> instructions[i].accounts[j].pubkey]
         \o FlatKeys(instructions, i + 1)

build_transaction_accounts_per_occurrence(instructions, accounts, fallback_accounts) ==
    [i \in 1..Len(FlatKeys(instructions, 1)) |->
        Keyed(FlatKeys(instructions, 1)[i],
              ResolveAccount(FlatKeys(instructions, 1)[i], accounts, instructions,
                             fallback_accounts))]

\* compile_accounts::build_transaction_accounts
build_transaction_accounts(instructions, accounts, fallback_accounts) ==
    LET keys == account_keys(instructions)
    IN [i \in 1..Len(keys) |->
          Keyed(keys[i],
                ResolveAccount(keys[i], accounts, instructions, fallback_accounts))]

\* Message::new(instructions, None): the header counts the keys of three of
\* the four privilege classes.
MessageHeader(instructions) ==
    [num_required_signatures |->
         Len(KeyGroup(instructions, TRUE, TRUE)) + Len(KeyGroup(instructions, TRUE, FALSE)),
     num_readonly_signed_accounts |-> Len(KeyGroup(instructions, TRUE, FALSE)),
     num_readonly_unsigned_accounts |-> Len(KeyGroup(instructions, FALSE, FALSE))]

\* Position of a key in a key sequence, counted from zero
IndexOfKey(keys, key) == (CHOOSE i \in 1..Len(keys) : keys[i] = key) - 1

\* Message::new compiles an instruction to indices into account_keys.
CompiledInstruction(keys, ix) ==
    [program_id_index |-> IndexOfKey(keys, ix.program_id),
     accounts |-> [j \in 1..Len(ix.accounts) |-> IndexOfKey(keys, ix.accounts[j].pubkey)]]

\* SanitizedMessage::Legacy(LegacyMessage::new(Message::new(instructions, None), &HashSet::new()))
SanitizedMessage(instructions) ==
    [header |-> MessageHeader(instructions),
     account_keys |-> account_keys(instructions),
     instructions |->
         [i \in 1..Len(instructions) |->
             CompiledInstruction(account_keys(instructions), instructions[i])]]

\* SanitizedMessage::is_signer(index), index counted from zero
is_signer(message, index) == index < message.header.num_required_signatures

\* Message::is_writable_index
is_writable_index(message, index) ==
    \/ index < message.header.num_required_signatures
                 - message.header.num_readonly_signed_accounts
    \/ /\ index >= message.header.num_required_signatures
       /\ index < Len(message.account_keys)
                      - message.header.num_readonly_unsigned_accounts

\* Message::demote_program_id: a key called as a program is read-only
\* unless the upgradeable loader is a key of the message.
demote_program_id(message, index) ==
    /\ \E i \in 1..Len(message.instructions) :
          message.instructions[i].program_id_index = index
    /\ \A i \in 1..Len(message.account_keys) : message.account_keys[i] # LOADER_V3

\* SanitizedMessage::is_writable(index) with no reserved account keys
is_writable(message, index) ==
    is_writable_index(message, index) /\ ~demote_program_id(message, index)

\* The first key of the message build_transaction_accounts cannot resolve
FirstMissing(keys, missing) ==
    keys[CHOOSE i \in 1..Len(keys) :
            /\ keys[i] \in missing
            /\ \A j \in 1..(i - 1) : keys[j] \notin missing]

\* A compilation that panicked with MolluskError::AccountMissing(key)
AccountMissing(instructions, key) ==
    [aborted |-> TRUE, missing |-> key,
     sanitized_message |-> SanitizedMessage(instructions),
     transaction_accounts |-> <<>>]

\* compile_accounts::compile_accounts
compile_accounts(instructions, accounts, fallback_accounts) ==
    IF MissingKeys(instructions, accounts, fallback_accounts) # {}
    THEN AccountMissing(instructions,
            FirstMissing(account_keys(instructions),
                         MissingKeys(instructions, accounts, fallback_accounts)))
    ELSE [aborted |-> FALSE, missing |-> "",
          sanitized_message |-> SanitizedMessage(instructions),
          transaction_accounts |->
              build_transaction_accounts(instructions, accounts, fallback_accounts)]

\* ------------------------------------------------------- transaction context
\* Mollusk::create_transaction_context
create_transaction_context(transaction_accounts) ==
    [accounts |-> transaction_accounts,
     instruction_trace |-> <<>>,
     return_data |-> <<>>,
     top_level_instruction_index |-> 0]

\* A transaction context whose top-level instruction index stays the one it
\* was created with.
keep_top_level_instruction_index(transaction_context, index) ==
    transaction_context

\* TransactionContext::set_top_level_instruction_index
set_top_level_instruction_index(transaction_context, index) ==
    [transaction_context EXCEPT !.top_level_instruction_index = index]

\* TransactionContext::find_index_of_account
find_index_of_account(transaction_context, pubkey) ==
    FindIndex(transaction_context.accounts, pubkey)

AccountOf(transaction_context, pubkey) ==
    transaction_context.accounts[find_index_of_account(transaction_context, pubkey)].account

SetAccount(transaction_context, pubkey, account) ==
    [transaction_context EXCEPT
        !.accounts[find_index_of_account(transaction_context, pubkey)].account = account]

\* ------------------------------------------------------------------- engine
\* The privilege the engine gives an instruction account: that of its key in
\* the sanitized message.
IsWritableAccount(instructions, key) ==
    is_writable(SanitizedMessage(instructions),
                IndexOfKey(account_keys(instructions), key))

\* What the system program leaves in the transaction context: `writes` are
\* kept by the context whether or not the instruction then fails.
SystemProcessor(instructions, ix, ctx) ==
    LET from == ix.accounts[1].pubkey
        to == ix.accounts[2].pubkey
        amount == ix.data.amount
        funded == AccountOf(ctx, from).lamports >= amount
        debited == SetAccount(ctx, from,
                      [AccountOf(ctx, from) EXCEPT !.lamports = @ - amount])
        moved == SetAccount(debited, to,
                      [AccountOf(debited, to) EXCEPT !.lamports = @ + amount])
        allocated == SetAccount(ctx, to, [AccountOf(ctx, to) EXCEPT !.data = <<0>>])
        allocated_moved ==
            LET d == SetAccount(allocated, from,
                        [AccountOf(allocated, from) EXCEPT !.lamports = @ - amount])
            IN SetAccount(d, to, [AccountOf(d, to) EXCEPT !.lamports = @ + amount])
    IN IF ~IsSignerKey(instructions, from)
       THEN [result |-> Err(MISSING_REQUIRED_SIGNATURE), ctx |-> ctx]
       ELSE IF ix.data.op = "transfer"
       THEN IF ~funded
            THEN [result |-> Err(RESULT_WITH_NEGATIVE_LAMPORTS), ctx |-> ctx]
            ELSE IF ~IsWritableAccount(instructions, to)
            THEN [result |-> Err(READONLY_LAMPORT_CHANGE), ctx |-> debited]
            ELSE [result |-> Ok, ctx |-> moved]
       ELSE \* create_account: allocate the target, then fund it
            IF AccountOf(ctx, to).lamports > 0 \/ AccountOf(ctx, to).data # <<>>
            THEN [result |-> Err(ACCOUNT_ALREADY_IN_USE), ctx |-> ctx]
            ELSE IF funded THEN [result |-> Ok, ctx |-> allocated_moved]
            ELSE [result |-> Err(RESULT_WITH_NEGATIVE_LAMPORTS), ctx |-> allocated]

\* The instruction as the invoke context records it in the instruction
\* trace at a nesting level; the return data is reset for the callee.
TracedAt(ctx, ix, nesting_level) ==
    [ctx EXCEPT !.instruction_trace =
                    Append(@, [nesting_level |-> nesting_level,
                               program_id |-> ix.program_id,
                               instruction |-> ix]),
                !.return_data = <<>>]

\* A top-level instruction in the instruction trace
Traced(ctx, ix) == TracedAt(ctx, ix, 0)

\* The system program with the units it consumes
SystemProgram(processed) ==
    [result |-> processed.result, ctx |-> processed.ctx,
     units |-> DEFAULT_COMPUTE_UNITS]

\* The primary test program: one CPI into the system program per amount,
\* from amount `j` on; it fails with the error of the first failing CPI and
\* sets its return data when all succeeded.
RECURSIVE CpiLoop(_, _, _, _, _)
CpiStep(instructions, ix, j, units, processed) ==
    IF processed.result.ok
    THEN CpiLoop(instructions, ix, processed.ctx, j + 1, units)
    ELSE [result |-> processed.result, ctx |-> processed.ctx, units |-> units]

CpiLoop(instructions, ix, ctx, j, units) ==
    IF j > Len(ix.data.amounts)
    THEN [result |-> Ok, ctx |-> [ctx EXCEPT !.return_data = ix.data.amounts],
          units |-> units]
    ELSE CpiStep(instructions, ix, j, units + DEFAULT_COMPUTE_UNITS,
            SystemProcessor(instructions,
                Transfer(ix.accounts[1].pubkey, ix.accounts[2].pubkey,
                         ix.data.amounts[j]),
                TracedAt(ctx,
                    Transfer(ix.accounts[1].pubkey, ix.accounts[2].pubkey,
                             ix.data.amounts[j]), 1)))

\* The output account after test_program_instructions_sysvar wrote the entry
\* of the current instruction (three cells per entry: program id written,
\* instruction index, executed) and marked the entry before it as executed.
WriteEntry(data, current_index) ==
    [c \in 1..Len(data) |->
        IF c = 3 * current_index + 1 THEN 1
        ELSE IF c = 3 * current_index + 2 THEN current_index
        ELSE IF c = 3 * current_index + 3 THEN 0
        ELSE IF current_index > 0 /\ c = 3 * current_index THEN 1
        ELSE data[c]]

\* Some flag pair of the input differs from the serialized meta it is
\* zipped with.
FlagsDiffer(flags, current_ix) ==
    \E j \in 1..Len(flags) :
        /\ j <= Len(current_ix.accounts)
        /\ flags[j] # <<current_ix.accounts[j].is_signer,
                        current_ix.accounts[j].is_writable>>

\* test_program_instructions_sysvar once it loaded the current index
SysvarProgramAt(ix, ctx, sysvar_data, current_index, output) ==
    IF current_index + 1 > Len(sysvar_data) - 1
    THEN [result |-> Err(INVALID_ARGUMENT), ctx |-> ctx]
    ELSE IF sysvar_data[current_index + 1].program_id # ix.program_id
    THEN [result |-> Err(INVALID_INSTRUCTION_DATA), ctx |-> ctx]
    ELSE IF FlagsDiffer(ix.data.flags, sysvar_data[current_index + 1])
    THEN [result |-> Err(INVALID_INSTRUCTION_DATA), ctx |-> ctx]
    ELSE IF sysvar_data[current_index + 1].data # ix.data
    THEN [result |-> Err(INVALID_INSTRUCTION_DATA), ctx |-> ctx]
    ELSE IF 3 * current_index + 3 > Len(AccountOf(ctx, output).data)
    THEN [result |-> Err(PROGRAM_FAILED_TO_COMPLETE), ctx |-> ctx]
    ELSE [result |-> Ok,
          ctx |-> SetAccount(ctx, output,
                     [AccountOf(ctx, output) EXCEPT
                         !.data = WriteEntry(@, current_index)])]

\* test_program_instructions_sysvar: process_instruction
SysvarProgramProcessor(ix, ctx) ==
    IF ix.accounts[Len(ix.accounts)].pubkey # INSTRUCTIONS_SYSVAR
    THEN [result |-> Err(INVALID_ACCOUNT_OWNER), ctx |-> ctx]
    ELSE SysvarProgramAt(ix, ctx, AccountOf(ctx, INSTRUCTIONS_SYSVAR).data,
            AccountOf(ctx, INSTRUCTIONS_SYSVAR).data[
                Len(AccountOf(ctx, INSTRUCTIONS_SYSVAR).data)],
            ix.accounts[1].pubkey)

\* A test program with the units it consumes
TestProgram(processed) ==
    [result |-> processed.result, ctx |-> processed.ctx,
     units |-> PRIMARY_COMPUTE_UNITS]

\* The program of the instruction, run by the engine
ProgramProcessor(instructions, ix, ctx) ==
    IF ix.program_id \notin CachedPrograms
    THEN [result |-> Err(UNSUPPORTED_PROGRAM_ID), ctx |-> ctx, units |-> 0]
    ELSE IF ix.program_id = PRIMARY
    THEN CpiLoop(instructions, ix, ctx, 1, PRIMARY_COMPUTE_UNITS)
    ELSE IF ix.program_id = IX_SYSVAR_PROGRAM
    THEN TestProgram(SysvarProgramProcessor(ix, ctx))
    ELSE SystemProgram(SystemProcessor(instructions, ix, ctx))

\* TransactionContext::push: when the instructions sysvar is an account of
\* the transaction, its owner is checked and the index of the current
\* top-level instruction is stored at the end of its data.
Push(ctx) ==
    IF find_index_of_account(ctx, INSTRUCTIONS_SYSVAR) = 0
    THEN [result |-> Ok, ctx |-> ctx]
    ELSE IF AccountOf(ctx, INSTRUCTIONS_SYSVAR).owner # SYSVAR_OWNER
    THEN [result |-> Err(INVALID_ACCOUNT_OWNER), ctx |-> ctx]
    ELSE IF Len(AccountOf(ctx, INSTRUCTIONS_SYSVAR).data) = 0
    THEN [result |-> Err(ACCOUNT_DATA_TOO_SMALL), ctx |-> ctx]
    ELSE [result |-> Ok,
          ctx |-> SetAccount(ctx, INSTRUCTIONS_SYSVAR,
                     [AccountOf(ctx, INSTRUCTIONS_SYSVAR) EXCEPT
                         !.data[Len(AccountOf(ctx, INSTRUCTIONS_SYSVAR).data)] =
                             ctx.top_level_instruction_index])]

\* TransactionContext::pop of a top-level instruction: the next one has the
\* next index.
Pop(invoked) ==
    [invoked EXCEPT !.ctx.top_level_instruction_index = @ + 1]

\* What the compute meter lets through: with fewer units left than the
\* program needs the instruction fails and the meter is emptied.
Metered(processed, traced, remaining) ==
    IF remaining < processed.units
    THEN [result |-> Err(COMPUTATIONAL_BUDGET_EXCEEDED), ctx |-> traced,
          consumed |-> remaining, metered |-> remaining, timed |-> 1]
    ELSE [result |-> processed.result, ctx |-> processed.ctx,
          consumed |-> processed.units, metered |-> processed.units,
          timed |-> 1]

\* The instruction once its context was pushed: a failing push fails the
\* instruction before its program runs.
Entered(instructions, ix, pushed, remaining) ==
    IF ~pushed.result.ok
    THEN [result |-> pushed.result, ctx |-> pushed.ctx, consumed |-> 0,
          metered |-> 0, timed |-> 1]
    ELSE Metered(ProgramProcessor(instructions, ix, pushed.ctx), pushed.ctx,
                 remaining)

\* The precompile once its context was pushed: it verifies the signatures
\* of its data; the meter, the timings and the caller's compute-unit
\* counter are not touched.
Verified(ix, pushed, compute_units_consumed) ==
    [result |-> IF ~pushed.result.ok THEN pushed.result
                ELSE IF ix.data.valid THEN Ok
                ELSE Err(PRECOMPILE_INVALID_SIGNATURE),
     ctx |-> pushed.ctx, consumed |-> compute_units_consumed,
     metered |-> 0, timed |-> 0]

\* InvokeContext::process_precompile
InvokeProcessPrecompile(ix, ctx, compute_units_consumed) ==
    Pop(Verified(ix, Push(Traced(ctx, ix)), compute_units_consumed))

\* InvokeContext::process_instruction: one top-level instruction against the
\* compute meter of the invoke context (`remaining` units are left in it).
InvokeProcessInstruction(instructions, ix, ctx, remaining) ==
    Pop(Entered(instructions, ix, Push(Traced(ctx, ix)), remaining))

\* `if invoke_context.is_precompile(program_id) { process_precompile(..) }
\* else { process_instruction(&mut compute_units_consumed, &mut timings) }`
Invoke(instructions, ix, st) ==
    IF is_precompile(ix.program_id)
    THEN InvokeProcessPrecompile(ix, st.ctx, st.compute_units_consumed)
    ELSE InvokeProcessInstruction(instructions, ix, st.ctx, st.remaining)

\* --------------------------------------------------------- message executor
\* A budget that is the same whatever compute_unit_limit is set to.
budget_ignoring_limit(compute_unit_limit) == 2 * DEFAULT_COMPUTE_UNITS

\* self.compute_budget.to_budget(): what the compute meter of the message's
\* one InvokeContext starts from.
to_budget(compute_unit_limit) == compute_unit_limit

\* One step of process_transaction_message, for the instruction `index`
Step(step, index) == [step |-> step, index |-> index]

\* The locals of process_transaction_message and the compute meter after the
\* engine returned from instruction `index`: each call of
\* invoke_context.process_instruction(&mut compute_units_consumed, ..) sets
\* the out-parameter to the units that one instruction took from the meter.
AfterInvoke(st, index, invoked) ==
    [ctx |-> invoked.ctx,
     remaining |-> st.remaining - invoked.metered,
     compute_units_consumed |-> invoked.consumed,
     execution_time |-> st.execution_time + invoked.timed,
     raw_result |-> IF invoked.result.ok THEN st.raw_result
                    ELSE TxErr(index % U8_RANGE, invoked.result.err),
     dispatched |-> Append(st.dispatched,
                           [index |-> index, result |-> invoked.result,
                            consumed |-> invoked.metered]),
     steps |-> Append(st.steps, Step("invoke", index))]

\* invoke_context.prepare_next_top_level_instruction(..) for instruction
\* `index`
prepare_next_top_level_instruction(st, index) ==
    [st EXCEPT !.steps = Append(@, Step("prepare", index))]

\* self.invocation_inspect_callback.before_invocation(..) (feature
\* `invocation-inspect-callback`)
before_invocation(st, index) ==
    [st EXCEPT !.steps = Append(@, Step("before_invocation", index))]

\* A callback that is notified only after an engine call that succeeded.
after_invocation_on_success(st, index) ==
    IF st.raw_result.ok
    THEN [st EXCEPT !.steps = Append(@, Step("after_invocation", index))]
    ELSE st

\* self.invocation_inspect_callback.after_invocation(..)
after_invocation(st, index) ==
    [st EXCEPT !.steps = Append(@, Step("after_invocation", index))]

\* The engine call of instruction `index` with the locals updated from it
InvokeStep(instructions, index, st) ==
    AfterInvoke(st, index, Invoke(instructions, instructions[index + 1], st))

\* The `for` loop of Mollusk::process_transaction_message, from instruction
\* `index` (zero-based) on; `st` carries the locals of the function and the
\* compute meter of the invoke context.
RECURSIVE MessageLoop(_, _, _)
MessageStep(instructions, index, after) ==
    IF ~after.raw_result.ok THEN after
    ELSE MessageLoop(instructions, index + 1, after)

MessageLoop(instructions, index, st) ==
    IF index >= Len(instructions) THEN st
    ELSE MessageStep(instructions, index,
            after_invocation(
                InvokeStep(instructions, index,
                    before_invocation(
                        prepare_next_top_level_instruction(st, index),
                        index)),
                index))

\* A stack height that forgets the `+ 1`.
stack_height_as_nesting_level(nesting_level) == nesting_level

\* `ix_in_trace.nesting_level.saturating_add(1)`: the nesting level is bounded
\* by the instruction stack depth, far below the saturation point.
stack_height_of(nesting_level) == nesting_level + 1

\* Mollusk::deconstruct_inner_instructions, one trace entry at a time
RECURSIVE InnerFrom(_, _, _)
InnerFrom(ix_trace, i, groups) ==
    IF i > Len(ix_trace) THEN groups
    ELSE IF stack_height_of(ix_trace[i].nesting_level) = 1
    THEN InnerFrom(ix_trace, i + 1, Append(groups, <<>>))
    ELSE IF Len(groups) > 0
    THEN InnerFrom(ix_trace, i + 1,
            [groups EXCEPT ![Len(groups)] =
                Append(@, [instruction |-> ix_trace[i].instruction,
                           stack_height |->
                               stack_height_of(ix_trace[i].nesting_level)])])
    ELSE InnerFrom(ix_trace, i + 1, groups)

deconstruct_inner_instructions(transaction_context) ==
    InnerFrom(transaction_context.instruction_trace, 1, <<>>)

\* The MessageResult built from the locals the loop ended with, with the
\* transaction context as the engine left it and the dispatched instructions.
MessageResultOf(instructions, st) ==
    [compute_units_consumed |-> st.compute_units_consumed,
     execution_time |-> st.execution_time,
     raw_result |-> st.raw_result,
     return_data |-> st.ctx.return_data,
     inner_instructions |-> deconstruct_inner_instructions(st.ctx),
     message |-> account_keys(instructions),
     transaction_context |-> st.ctx,
     dispatched |-> st.dispatched,
     steps |-> st.steps \o <<Step("get_return_data", Len(st.dispatched)),
                             Step("deconstruct_inner_instructions",
                                  Len(st.dispatched))>>]

\* Mollusk::process_transaction_message
process_transaction_message(instructions, transaction_context, limit) ==
    MessageResultOf(instructions,
        MessageLoop(instructions, 0,
            [ctx |-> transaction_context, remaining |-> to_budget(limit),
             compute_units_consumed |-> 0, execution_time |-> 0,
             raw_result |-> Ok, dispatched |-> <<>>, steps |-> <<>>]))

\* A deconstruction that walks the transaction context instead of the
\* accounts passed in (synthesized accounts leak, the input order is lost).
deconstruct_context_accounts(transaction_context, original_accounts) ==
    transaction_context.accounts

\* deconstruct_resulting_accounts that returns a default account for a key
\* the transaction context does not hold
deconstruct_resulting_accounts_found_only(transaction_context, original_accounts) ==
    [i \in 1..Len(original_accounts) |->
        IF find_index_of_account(transaction_context, original_accounts[i].key) # 0
        THEN Keyed(original_accounts[i].key,
                   AccountOf(transaction_context, original_accounts[i].key))
        ELSE Keyed(original_accounts[i].key, NewAccount(0, <<>>, NATIVE_LOADER, FALSE))]

\* deconstruct_resulting_accounts that reads the context for the first
\* occurrence of a key only
deconstruct_resulting_accounts_first_occurrence(transaction_context, original_accounts) ==
    [i \in 1..Len(original_accounts) |->
        IF /\ find_index_of_account(transaction_context, original_accounts[i].key) # 0
           /\ FindIndex(original_accounts, original_accounts[i].key) = i
        THEN Keyed(original_accounts[i].key,
                   AccountOf(transaction_context, original_accounts[i].key))
        ELSE original_accounts[i]]

\* Mollusk::deconstruct_resulting_accounts
deconstruct_resulting_accounts(transaction_context, original_accounts) ==
    [i \in 1..Len(original_accounts) |->
        IF find_index_of_account(transaction_context, original_accounts[i].key) # 0
        THEN Keyed(original_accounts[i].key,
                   AccountOf(transaction_context, original_accounts[i].key))
        ELSE original_accounts[i]]

\* -------------------------------------------------------------- result model
\* InstructionResult::default()
DefaultResult ==
    [compute_units_consumed |-> 0, execution_time |-> 0,
     program_result |-> Success, raw_result |-> Ok, return_data |-> <<>>,
     resulting_accounts |-> <<>>, inner_instructions |-> <<>>,
     message |-> <<>>]

\* An absorb that forgets to advance the resulting accounts.
absorb_keeping_accounts(self, other) ==
    [compute_units_consumed |->
         self.compute_units_consumed + other.compute_units_consumed,
     execution_time |-> self.execution_time + other.execution_time,
     program_result |-> other.program_result,
     raw_result |-> other.raw_result,
     return_data |-> other.return_data,
     resulting_accounts |-> self.resulting_accounts,
     inner_instructions |-> other.inner_instructions,
     message |-> other.message]

\* An absorb that accumulates return data and inner instructions too.
absorb_accumulating(self, other) ==
    [compute_units_consumed |->
         self.compute_units_consumed + other.compute_units_consumed,
     execution_time |-> self.execution_time + other.execution_time,
     program_result |-> other.program_result,
     raw_result |-> other.raw_result,
     return_data |-> self.return_data \o other.return_data,
     resulting_accounts |-> other.resulting_accounts,
     inner_instructions |-> self.inner_instructions \o other.inner_instructions,
     message |-> other.message]

\* InstructionResult::absorb
absorb(self, other) ==
    [compute_units_consumed |->
         self.compute_units_consumed + other.compute_units_consumed,
     execution_time |-> self.execution_time + other.execution_time,
     program_result |-> other.program_result,
     raw_result |-> other.raw_result,
     return_data |-> other.return_data,
     resulting_accounts |-> other.resulting_accounts,
     inner_instructions |-> other.inner_instructions,
     message |-> other.message]

\* Check::success() and Check::compute_units(n)
CheckSuccess == [type |-> "ProgramResult", program_result |-> Success, units |-> 0]
CheckComputeUnits(n) == [type |-> "ComputeUnitsConsumed", program_result |-> Success, units |-> n]

\* Check::program_result, Check::time, Check::return_data,
\* Check::all_rent_exempt, Check::inner_instruction_count
CheckProgramResult(result) ==
    [type |-> "ProgramResult", program_result |-> result, units |-> 0]
CheckTime(time) == [type |-> "ExecutionTime", time |-> time]
CheckReturnData(return_data) == [type |-> "ReturnData", return_data |-> return_data]
CheckAllRentExempt == [type |-> "AllRentExempt"]
CheckInnerInstructionCount(count) == [type |-> "InnerInstructionCount", count |-> count]

\* AccountCheck::new under CheckType::ResultingAccount; the builder sets the
\* optional fields.
AccountCheck(pubkey) ==
    [type |-> "ResultingAccount", pubkey |-> pubkey, check_data |-> None,
     check_executable |-> None, check_lamports |-> None, check_owner |-> None,
     check_space |-> None, check_state |-> None, check_data_slice |-> None]

\* usize, scaled to 16 bits
USIZE_RANGE == 65536

\* Rent::minimum_balance, scaled: one lamport per byte of data and one for
\* the account.
minimum_balance(data_len) == 1 + data_len

\* CheckContext::is_rent_exempt
is_rent_exempt(lamports, space, owner) ==
    (owner = SYSTEM_PROGRAM /\ lamports = 0) \/ lamports >= minimum_balance(space)

\* compare!(c, check, left, right): a mismatch panics or returns false from
\* run_checks.
Compare(c, left, right) ==
    IF left = right THEN "pass"
    ELSE IF c.panic THEN "panic" ELSE "return_false"

\* throw!(c, ..): panics or evaluates to false, which clears `pass`.
Throw(c) == IF c.panic THEN "panic" ELSE "pass_cleared"

\* The first outcome of the sequence that is not a pass
RECURSIVE FirstOutcome(_, _)
FirstOutcome(outcomes, i) ==
    IF i > Len(outcomes) THEN "pass"
    ELSE IF outcomes[i] # "pass" THEN outcomes[i]
    ELSE FirstOutcome(outcomes, i + 1)

\* `if let Some((offset, check_data_slice)) = account.check_data_slice`:
\* `offset + check_data_slice.len()` panics on overflow in a build with
\* overflow checks and wraps in a build without; slicing from an offset
\* behind the end panics.
data_slice(c, overflow_checks, offset, check_data_slice, actual_data) ==
    IF offset + Len(check_data_slice) >= USIZE_RANGE /\ overflow_checks
    THEN "panic"
    ELSE IF (offset + Len(check_data_slice)) % USIZE_RANGE > Len(actual_data)
    THEN Throw(c)
    ELSE IF offset > (offset + Len(check_data_slice)) % USIZE_RANGE
    THEN "panic"
    ELSE Compare(c, check_data_slice,
                 SubSeq(actual_data, offset + 1, offset + Len(check_data_slice)))

\* CheckType::ResultingAccount on the account that was found
ResultingAccountFound(c, overflow_checks, check, account) ==
    FirstOutcome(
        <<IF check.check_data = None THEN "pass"
          ELSE Compare(c, check.check_data[1], account.data),
          IF check.check_executable = None THEN "pass"
          ELSE Compare(c, check.check_executable[1], account.executable),
          IF check.check_lamports = None THEN "pass"
          ELSE Compare(c, check.check_lamports[1], account.lamports),
          IF check.check_owner = None THEN "pass"
          ELSE Compare(c, check.check_owner[1], account.owner),
          IF check.check_space = None THEN "pass"
          ELSE Compare(c, check.check_space[1], Len(account.data)),
          IF check.check_state = None THEN "pass"
          ELSE IF check.check_state[1] = "Closed"
          THEN Compare(c, TRUE, account = DefaultAccount)
          ELSE Compare(c, TRUE, is_rent_exempt(account.lamports,
                                               Len(account.data), account.owner)),
          IF check.check_data_slice = None THEN "pass"
          ELSE data_slice(c, overflow_checks, check.check_data_slice[1].offset,
                          check.check_data_slice[1].data, account.data)>>, 1)

\* One arm of the `match &check.check` of run_checks
CheckOutcome(c, overflow_checks, check, result) ==
    CASE check.type = "ComputeUnitsConsumed" ->
            Compare(c, check.units, result.compute_units_consumed)
      [] check.type = "ExecutionTime" ->
            Compare(c, check.time, result.execution_time)
      [] check.type = "ProgramResult" ->
            Compare(c, check.program_result, result.program_result)
      [] check.type = "ReturnData" ->
            Compare(c, check.return_data, result.return_data)
      [] check.type = "ResultingAccount" ->
            IF FindIndex(result.resulting_accounts, check.pubkey) = 0
            THEN Throw(c)
            ELSE ResultingAccountFound(c, overflow_checks, check,
                    result.resulting_accounts[
                        FindIndex(result.resulting_accounts, check.pubkey)].account)
      [] check.type = "AllRentExempt" ->
            IF \A i \in 1..Len(result.resulting_accounts) :
                   is_rent_exempt(result.resulting_accounts[i].account.lamports,
                                  Len(result.resulting_accounts[i].account.data),
                                  result.resulting_accounts[i].account.owner)
            THEN "pass" ELSE Throw(c)
      [] check.type = "InnerInstructionCount" ->
            Compare(c, check.count, Len(result.inner_instructions))

\* The `for check in checks` loop of run_checks, from check i on, with the
\* value of `pass`: what the call returns, or that it panics.
RECURSIVE ChecksFrom(_, _, _, _, _, _)
ChecksStep(checks, c, overflow_checks, result, i, pass, outcome) ==
    IF outcome = "panic" THEN [panicked |-> TRUE, value |-> FALSE]
    ELSE IF outcome = "return_false" THEN [panicked |-> FALSE, value |-> FALSE]
    ELSE ChecksFrom(checks, c, overflow_checks, result, i + 1,
                    pass /\ outcome = "pass")

ChecksFrom(checks, c, overflow_checks, result, i, pass) ==
    IF i > Len(checks) THEN [panicked |-> FALSE, value |-> pass]
    ELSE ChecksStep(checks, c, overflow_checks, result, i, pass,
                    CheckOutcome(c, overflow_checks, checks[i], result))

\* check.rs run_checks with its Config
run_checks_with(checks, c, overflow_checks, result) ==
    ChecksFrom(checks, c, overflow_checks, result, 1, TRUE)

\* check.rs run_checks: TRUE iff every check of the list passes
run_checks(checks, result) ==
    run_checks_with(checks, [panic |-> FALSE], TRUE, result).value

\* ------------------------------------------------------------------ compare
\* enum Compare: the selectors without fields
CompareComputeUnits == [type |-> "ComputeUnits"]
CompareExecutionTime == [type |-> "ExecutionTime"]
CompareProgramResult == [type |-> "ProgramResult"]
CompareReturnData == [type |-> "ReturnData"]

\* struct CompareAccountFields
CompareAccountFields(data, executable, lamports, owner, space) ==
    [data |-> data, executable |-> executable, lamports |-> lamports,
     owner |-> owner, space |-> space]

\* Compare::AllResultingAccounts, Compare::OnlyResultingAccounts and
\* Compare::AllResultingAccountsExcept with their field toggles
AllResultingAccounts(fields) ==
    [type |-> "AllResultingAccounts", fields |-> fields]
OnlyResultingAccounts(addresses, fields) ==
    [type |-> "OnlyResultingAccounts", addresses |-> addresses, fields |-> fields]
AllResultingAccountsExcept(ignore_addresses, fields) ==
    [type |-> "AllResultingAccountsExcept",
     ignore_addresses |-> ignore_addresses, fields |-> fields]

\* Compare::all_resulting_accounts, only_resulting_accounts and
\* all_resulting_accounts_except: every toggle on
AllFields == CompareAccountFields(TRUE, TRUE, TRUE, TRUE, TRUE)
all_resulting_accounts == AllResultingAccounts(AllFields)
only_resulting_accounts(addresses) == OnlyResultingAccounts(addresses, AllFields)
all_resulting_accounts_except(ignore_addresses) ==
    AllResultingAccountsExcept(ignore_addresses, AllFields)

\* A preset that holds the execution-time selector too.
everything_with_time ==
    <<CompareComputeUnits, CompareExecutionTime, CompareProgramResult,
      CompareReturnData, all_resulting_accounts>>

\* Compare::everything_but_cus and Compare::everything; Self::ExecutionTime is
\* commented out in both.
everything_but_cus ==
    <<CompareProgramResult, CompareReturnData, all_resulting_accounts>>
everything ==
    <<CompareComputeUnits, CompareProgramResult, CompareReturnData,
      all_resulting_accounts>>

\* `addresses.contains(&key)`
contains(addresses, key) == \E i \in 1..Len(addresses) : addresses[i] = key

\* A comparison of a pair that holds the lamports of one account against
\* the space of the other.
AccountPairLamportsAgainstSpace(c, fields, a, b) ==
    FirstOutcome(
        <<IF fields.data THEN Compare(c, a.data, b.data) ELSE "pass",
          IF fields.executable THEN Compare(c, a.executable, b.executable)
          ELSE "pass",
          IF fields.lamports THEN Compare(c, a.lamports, Len(b.data)) ELSE "pass",
          IF fields.owner THEN Compare(c, a.owner, b.owner) ELSE "pass",
          IF fields.space THEN Compare(c, Len(a.data), Len(b.data)) ELSE "pass">>,
        1)

\* The body of the loop of compare_resulting_accounts for a pair that is
\* selected: one compare! per field that is switched on
AccountPair(c, fields, a, b) ==
    FirstOutcome(
        <<IF fields.data THEN Compare(c, a.data, b.data) ELSE "pass",
          IF fields.executable THEN Compare(c, a.executable, b.executable)
          ELSE "pass",
          IF fields.lamports THEN Compare(c, a.lamports, b.lamports) ELSE "pass",
          IF fields.owner THEN Compare(c, a.owner, b.owner) ELSE "pass",
          IF fields.space THEN Compare(c, Len(a.data), Len(b.data)) ELSE "pass">>,
        1)

\* The length of `a.iter().zip(b.iter())`
ZipLen(a, b) == IF Len(a) <= Len(b) THEN Len(a) ELSE Len(b)

\* The loop with the address filters evaluated on the key of the right
\* account
RECURSIVE ZipFromFilteringOnRight(_, _, _, _, _, _, _)
ZipFromFilteringOnRight(a, b, addresses, ignore_addresses, fields, c, i) ==
    IF i > ZipLen(a, b) THEN "pass"
    ELSE IF /\ contains(addresses, b[i].key)
            /\ ~contains(ignore_addresses, b[i].key)
            /\ AccountPair(c, fields, a[i].account, b[i].account) # "pass"
    THEN AccountPair(c, fields, a[i].account, b[i].account)
    ELSE ZipFromFilteringOnRight(a, b, addresses, ignore_addresses, fields, c, i + 1)

\* The loop of compare_resulting_accounts over the zipped accounts, from
\* pair i on: the key of the left account decides whether the pair is
\* compared.
RECURSIVE ZipFrom(_, _, _, _, _, _, _)
ZipFrom(a, b, addresses, ignore_addresses, fields, c, i) ==
    IF i > ZipLen(a, b) THEN "pass"
    ELSE IF /\ contains(addresses, a[i].key)
            /\ ~contains(ignore_addresses, a[i].key)
            /\ AccountPair(c, fields, a[i].account, b[i].account) # "pass"
    THEN AccountPair(c, fields, a[i].account, b[i].account)
    ELSE ZipFrom(a, b, addresses, ignore_addresses, fields, c, i + 1)

\* InstructionResult::compare_resulting_accounts: "pass" for true,
\* "return_false" for false, "panic"
compare_resulting_accounts(self, b, addresses, ignore_addresses, fields, c) ==
    ZipFrom(self.resulting_accounts, b.resulting_accounts, addresses,
            ignore_addresses, fields, c, 1)

\* `pass &= self.compare_resulting_accounts(..)`: false clears `pass`, the
\* loop over the selectors goes on.
PassAnd(outcome) == IF outcome = "return_false" THEN "pass_cleared" ELSE outcome

\* `self.resulting_accounts.iter().map(|(k, _)| *k).collect()`
ResultingAddresses(self) ==
    [i \in 1..Len(self.resulting_accounts) |-> self.resulting_accounts[i].key]

\* One arm of the `match check` of compare_with_config
SelectorOutcome(c, check, self, b) ==
    CASE check.type = "ComputeUnits" ->
            Compare(c, self.compute_units_consumed, b.compute_units_consumed)
      [] check.type = "ExecutionTime" ->
            Compare(c, self.execution_time, b.execution_time)
      [] check.type = "ProgramResult" ->
            Compare(c, self.program_result, b.program_result)
      [] check.type = "ReturnData" ->
            Compare(c, self.return_data, b.return_data)
      [] check.type = "AllResultingAccounts" ->
            FirstOutcome(
                <<Compare(c, Len(self.resulting_accounts),
                          Len(b.resulting_accounts)),
                  PassAnd(compare_resulting_accounts(
                      self, b, ResultingAddresses(self), <<>>, check.fields, c))>>,
                1)
      [] check.type = "OnlyResultingAccounts" ->
            PassAnd(compare_resulting_accounts(
                self, b, check.addresses, <<>>, check.fields, c))
      [] check.type = "AllResultingAccountsExcept" ->
            PassAnd(compare_resulting_accounts(
                self, b, ResultingAddresses(self), check.ignore_addresses,
                check.fields, c))

\* The `for check in checks` loop of compare_with_config, from selector i
\* on, with the value of `pass`
RECURSIVE SelectorsFrom(_, _, _, _, _, _)
SelectorsStep(checks, c, self, b, i, pass, outcome) ==
    IF outcome = "panic" THEN [panicked |-> TRUE, value |-> FALSE]
    ELSE IF outcome = "return_false" THEN [panicked |-> FALSE, value |-> FALSE]
    ELSE SelectorsFrom(checks, c, self, b, i + 1, pass /\ outcome = "pass")

SelectorsFrom(checks, c, self, b, i, pass) ==
    IF i > Len(checks) THEN [panicked |-> FALSE, value |-> pass]
    ELSE SelectorsStep(checks, c, self, b, i, pass,
                       SelectorOutcome(c, checks[i], self, b))

\* InstructionResult::compare_with_config: what the call returns, or that
\* it panics
compare_with_config(self, b, checks, c) == SelectorsFrom(checks, c, self, b, 1, TRUE)

\* ------------------------------------------------------------------- facade
\* What one executed message leaves behind for inspection: the accounts it
\* was compiled from, the transaction accounts the engine started from, the
\* transaction accounts it left, and the instructions it dispatched to the
\* engine with the result of each.
Execution(index, accounts, transaction_accounts, message_result, result) ==
    [index |-> index, accounts |-> accounts,
     transaction_accounts |-> transaction_accounts,
     post_accounts |-> message_result.transaction_context.accounts,
     instruction_trace |-> message_result.transaction_context.instruction_trace,
     all_inner_instructions |-> message_result.inner_instructions,
     dispatched |-> message_result.dispatched,
     steps |-> message_result.steps,
     result |-> result]

Returned(result, executions) ==
    [aborted |-> FALSE, result |-> result, executions |-> executions,
     panic |-> NoPanic]

\* or_panic_with(..) / panic!(..): the call does not return a result
Aborted(executions) ==
    [aborted |-> TRUE, result |-> DefaultResult, executions |-> executions,
     panic |-> [error |-> "panic", program_id |-> ""]]

\* or_panic_with(error) on a None: the call does not return a result
PanickedWith(errors) ==
    [aborted |-> TRUE, result |-> DefaultResult, executions |-> <<>>,
     panic |-> CHOOSE error \in errors : TRUE]

\* A selection that always reads the transaction context back, also after a
\* failure.
AlwaysDeconstruct(message_result, accounts) ==
    deconstruct_resulting_accounts(message_result.transaction_context, accounts)

\* `if message_result.raw_result.is_ok() { deconstruct } else { accounts.to_vec() }`
\* in process_instruction
InstructionResultingAccounts(message_result, accounts) ==
    IF message_result.raw_result.ok
    THEN deconstruct_resulting_accounts(message_result.transaction_context, accounts)
    ELSE accounts

ElementAlwaysDeconstruct(message_result, accounts) ==
    deconstruct_resulting_accounts(message_result.transaction_context, accounts)

\* the same selection in process_instruction_chain_element
ElementResultingAccounts(message_result, accounts) ==
    IF message_result.raw_result.ok
    THEN deconstruct_resulting_accounts(message_result.transaction_context, accounts)
    ELSE accounts

TransactionAlwaysDeconstruct(message_result, accounts) ==
    deconstruct_resulting_accounts(message_result.transaction_context, accounts)

\* the same selection in process_transaction_instructions
TransactionResultingAccounts(message_result, accounts) ==
    IF message_result.raw_result.ok
    THEN deconstruct_resulting_accounts(message_result.transaction_context, accounts)
    ELSE accounts

\* The InstructionResult process_instruction builds from the message result
InstructionResultOf(message_result, accounts) ==
    [compute_units_consumed |-> message_result.compute_units_consumed,
     execution_time |-> message_result.execution_time,
     program_result |-> ProgramResultFrom(extract_ix_err(message_result.raw_result)),
     raw_result |-> extract_ix_err(message_result.raw_result),
     return_data |-> message_result.return_data,
     resulting_accounts |-> InstructionResultingAccounts(message_result, accounts),
     inner_instructions |->
         IF Len(message_result.inner_instructions) >= 1
         THEN message_result.inner_instructions[1] ELSE <<>>,
     message |-> message_result.message]

\* The InstructionResult process_instruction_chain_element builds
ElementResultOf(index, message_result, accounts) ==
    [compute_units_consumed |-> message_result.compute_units_consumed,
     execution_time |-> message_result.execution_time,
     program_result |-> ProgramResultFrom(extract_ix_err(message_result.raw_result)),
     raw_result |-> extract_ix_err(message_result.raw_result),
     return_data |-> message_result.return_data,
     resulting_accounts |-> ElementResultingAccounts(message_result, accounts),
     inner_instructions |->
         IF Len(message_result.inner_instructions) >= index + 1
         THEN message_result.inner_instructions[index + 1] ELSE <<>>,
     message |-> message_result.message]

\* A TransactionResult that keeps the inner instructions of the first
\* top-level instruction only.
TransactionResultFirstGroup(message_result, accounts) ==
    [compute_units_consumed |-> message_result.compute_units_consumed,
     execution_time |-> message_result.execution_time,
     program_result |-> extract_txn_program_result(message_result.raw_result),
     raw_result |-> message_result.raw_result,
     return_data |-> message_result.return_data,
     resulting_accounts |-> TransactionResultingAccounts(message_result, accounts),
     inner_instructions |->
         IF Len(message_result.inner_instructions) >= 1
         THEN <<message_result.inner_instructions[1]>> ELSE <<>>,
     message |-> message_result.message]

\* The TransactionResult process_transaction_instructions builds
TransactionResultOf(message_result, accounts) ==
    [compute_units_consumed |-> message_result.compute_units_consumed,
     execution_time |-> message_result.execution_time,
     program_result |-> extract_txn_program_result(message_result.raw_result),
     raw_result |-> message_result.raw_result,
     return_data |-> message_result.return_data,
     resulting_accounts |-> TransactionResultingAccounts(message_result, accounts),
     inner_instructions |-> message_result.inner_instructions,
     message |-> message_result.message]

\* What a call that executed one message returns
ReturnedExecution(index, accounts, transaction_accounts, message_result, result) ==
    Returned(result,
        <<Execution(index, accounts, transaction_accounts, message_result, result)>>)

\* process_instruction once the transaction accounts are compiled
InstructionCompiled(instructions, accounts, transaction_accounts, message_result) ==
    ReturnedExecution(0, accounts, transaction_accounts, message_result,
                      InstructionResultOf(message_result, accounts))

\* process_instruction once the fallback accounts are known
InstructionWithFallbacks(instructions, accounts, fallback_accounts, limit) ==
    IF MissingKeys(instructions, accounts, fallback_accounts) # {}
    THEN Aborted(<<>>)
    ELSE InstructionCompiled(instructions, accounts,
            build_transaction_accounts(instructions, accounts, fallback_accounts),
            process_transaction_message(instructions,
                create_transaction_context(
                    build_transaction_accounts(instructions, accounts,
                                               fallback_accounts)),
                limit))

\* Mollusk::process_instruction
process_instruction(instruction, accounts, limit) ==
    IF FallbackPanics(<<instruction>>, accounts) # {}
    THEN PanickedWith(FallbackPanics(<<instruction>>, accounts))
    ELSE InstructionWithFallbacks(<<instruction>>, accounts,
            get_account_fallbacks(<<instruction>>, accounts), limit)

\* process_and_validate_instruction on what process_instruction returned
ValidatedInstruction(outcome, checks, panic) ==
    IF ~outcome.aborted /\ panic /\ ~run_checks(checks, outcome.result)
    THEN Aborted(outcome.executions)
    ELSE outcome

\* Mollusk::process_and_validate_instruction
process_and_validate_instruction(instruction, accounts, checks, limit, panic) ==
    ValidatedInstruction(process_instruction(instruction, accounts, limit),
                         checks, panic)

\* process_instruction_chain_element once the message was executed
ElementCompiled(index, accounts, transaction_accounts, message_result) ==
    ReturnedExecution(index, accounts, transaction_accounts, message_result,
                      ElementResultOf(index, message_result, accounts))

\* Mollusk::process_instruction_chain_element
process_instruction_chain_element(index, instruction, accounts, fallback_accounts, limit) ==
    IF MissingKeys(<<instruction>>, accounts, fallback_accounts) # {}
    THEN Aborted(<<>>)
    ELSE ElementCompiled(index, accounts,
            build_transaction_accounts(<<instruction>>, accounts, fallback_accounts),
            process_transaction_message(<<instruction>>,
                set_top_level_instruction_index(
                    create_transaction_context(
                        build_transaction_accounts(<<instruction>>, accounts,
                                                   fallback_accounts)),
                    index),
                limit))

\* The `for` loop shared by process_instruction_chain and
\* process_and_validate_instruction_chain, from element `index` on; `checks`
\* holds one check list per instruction (empty lists for the former).
RECURSIVE ChainLoop(_, _, _, _, _, _, _, _)
\* The body of the loop once the element was executed and absorbed
ChainStep(instructions, checks, panic, index, fallback_accounts, limit, element, absorbed, executions) ==
    IF element.aborted THEN Aborted(executions)
    ELSE IF panic /\ ~run_checks(checks[index + 1], element.result)
    THEN Aborted(executions \o element.executions)
    ELSE IF is_err(absorbed.program_result)
    THEN Returned(absorbed, executions \o element.executions)
    ELSE ChainLoop(instructions, checks, panic, index + 1,
                   fallback_accounts, limit, absorbed,
                   executions \o element.executions)

\* The body of the loop once the element was executed
ChainElement(instructions, checks, panic, index, fallback_accounts, limit, composite_result, executions, element) ==
    ChainStep(instructions, checks, panic, index, fallback_accounts, limit,
              element, absorb(composite_result, element.result), executions)

ChainLoop(instructions, checks, panic, index, fallback_accounts, limit, composite_result, executions) ==
    IF index >= Len(instructions) THEN Returned(composite_result, executions)
    ELSE ChainElement(instructions, checks, panic, index, fallback_accounts,
            limit, composite_result, executions,
            process_instruction_chain_element(index, instructions[index + 1],
                composite_result.resulting_accounts, fallback_accounts, limit))

\* Mollusk::process_and_validate_instruction_chain
process_and_validate_instruction_chain(instructions, checks, accounts, limit, panic) ==
    IF FallbackPanics(instructions, accounts) # {}
    THEN PanickedWith(FallbackPanics(instructions, accounts))
    ELSE ChainLoop(instructions, checks, panic, 0,
              get_account_fallbacks(instructions, accounts), limit,
              [DefaultResult EXCEPT !.resulting_accounts = accounts], <<>>)

\* Mollusk::process_instruction_chain
process_instruction_chain(instructions, accounts, limit) ==
    IF FallbackPanics(instructions, accounts) # {}
    THEN PanickedWith(FallbackPanics(instructions, accounts))
    ELSE ChainLoop(instructions, [i \in 1..Len(instructions) |-> <<>>], FALSE, 0,
              get_account_fallbacks(instructions, accounts), limit,
              [DefaultResult EXCEPT !.resulting_accounts = accounts], <<>>)

\* process_transaction_instructions once the message was executed
TransactionCompiled(accounts, transaction_accounts, message_result) ==
    ReturnedExecution(0, accounts, transaction_accounts, message_result,
                      TransactionResultOf(message_result, accounts))

\* process_transaction_instructions once the fallback accounts are known
TransactionWithFallbacks(instructions, accounts, fallback_accounts, limit) ==
    IF MissingKeys(instructions, accounts, fallback_accounts) # {}
    THEN Aborted(<<>>)
    ELSE TransactionCompiled(accounts,
            build_transaction_accounts(instructions, accounts, fallback_accounts),
            process_transaction_message(instructions,
                create_transaction_context(
                    build_transaction_accounts(instructions, accounts,
                                               fallback_accounts)),
                limit))

\* Mollusk::process_transaction_instructions
process_transaction_instructions(instructions, accounts, limit) ==
    IF FallbackPanics(instructions, accounts) # {}
    THEN PanickedWith(FallbackPanics(instructions, accounts))
    ELSE TransactionWithFallbacks(instructions, accounts,
            get_account_fallbacks(instructions, accounts), limit)

\* ----------------------------------------------------------- MolluskContext
\* program::create_keyed_account_for_builtin_program(program_id, "I'm a stub!")
create_keyed_account_for_builtin_program(program_id) ==
    Keyed(program_id, NewAccount(1, <<0>>, NATIVE_LOADER, TRUE))

\* program::create_program_account_loader_v3: the data is the serialized
\* UpgradeableLoaderState::Program
create_program_account_loader_v3(program_id) ==
    NewAccount(1, <<0>>, LOADER_V3, TRUE)

\* ProgramCache::maybe_create_program_account (defined on the cached ids)
maybe_create_program_account(pubkey) ==
    IF get_loader_key(pubkey).key = NATIVE_LOADER
    THEN create_keyed_account_for_builtin_program(pubkey).account
    ELSE create_program_account_loader_v3(pubkey)

\* ProgramCache::get_all_keyed_program_accounts
get_all_keyed_program_accounts ==
    <<Keyed(SYSTEM_PROGRAM, maybe_create_program_account(SYSTEM_PROGRAM)),
      Keyed(PRIMARY, maybe_create_program_account(PRIMARY)),
      Keyed(IX_SYSVAR_PROGRAM, maybe_create_program_account(IX_SYSVAR_PROGRAM))>>

\* Sysvars: the keys of the sysvar block and the stub account of each
SysvarKeys == {CLOCK}

\* Sysvars::maybe_create_sysvar_account (defined on the sysvar keys)
maybe_create_sysvar_account(pubkey) == NewAccount(1, <<0>>, SYSVAR_OWNER, FALSE)

\* Sysvars::get_all_keyed_sysvar_accounts
get_all_keyed_sysvar_accounts ==
    <<Keyed(CLOCK, maybe_create_sysvar_account(CLOCK))>>

\* AccountStore for HashMap: the store is a function on the stored keys
EmptyStore == [k \in {} |-> DefaultAccount]

store_account(store, pubkey, account) ==
    [k \in DOMAIN store \cup {pubkey} |-> IF k = pubkey THEN account ELSE store[k]]

RECURSIVE StoreAll(_, _, _)
StoreAll(store, accounts, i) ==
    IF i > Len(accounts) THEN store
    ELSE StoreAll(store_account(store, accounts[i].key, accounts[i].account),
                  accounts, i + 1)

\* Mollusk::with_context: program accounts are added where the store has none
with_context(account_store) ==
    StoreAll(account_store,
             SelectSeq(get_all_keyed_program_accounts,
                       LAMBDA e : e.key \notin DOMAIN account_store), 1)

\* The account MolluskContext loads for one instruction account key
LoadAccount(store, pubkey) ==
    IF pubkey \in DOMAIN store THEN store[pubkey]
    ELSE IF pubkey \in SysvarKeys THEN maybe_create_sysvar_account(pubkey)
    ELSE IF pubkey \in CachedPrograms THEN maybe_create_program_account(pubkey)
    ELSE DefaultAccount

\* All account metas of the instructions, flattened in order
RECURSIVE FlatMetaKeys(_, _)
FlatMetaKeys(instructions, i) ==
    IF i > Len(instructions) THEN <<>>
    ELSE [j \in 1..Len(instructions[i].accounts) |-> instructions[i].accounts[j].pubkey]
         \o FlatMetaKeys(instructions, i + 1)

\* The `seen` filter of load_accounts_for_instructions
RECURSIVE LoadFrom(_, _, _, _, _)
LoadFrom(store, keys, i, seen, accounts) ==
    IF i > Len(keys) THEN accounts
    ELSE IF keys[i] \notin seen /\ keys[i] # INSTRUCTIONS_SYSVAR
    THEN LoadFrom(store, keys, i + 1, seen \cup {keys[i]},
                  Append(accounts, Keyed(keys[i], LoadAccount(store, keys[i]))))
    ELSE LoadFrom(store, keys, i + 1, seen \cup {keys[i]}, accounts)

\* MolluskContext::load_accounts_for_instructions
load_accounts_for_instructions(instructions, store, hydrate) ==
    LoadFrom(store, FlatMetaKeys(instructions, 1), 1, {},
             IF hydrate
             THEN get_all_keyed_program_accounts \o get_all_keyed_sysvar_accounts
             ELSE <<>>)

\* A persistence step that stores the resulting accounts of failed calls too.
consume_any_result(store, outcome) ==
    IF ~outcome.aborted
    THEN StoreAll(store, outcome.result.resulting_accounts, 1)
    ELSE store

\* MolluskContext::consume_mollusk_result
consume_mollusk_result(store, outcome) ==
    IF ~outcome.aborted /\ is_ok(outcome.result.program_result)
    THEN StoreAll(store, outcome.result.resulting_accounts, 1)
    ELSE store

\* ------------------------------------------------------------ state machine
VARIABLES
    compute_budget,   \* Mollusk::compute_budget (the compute unit limit)
    config,           \* Mollusk::config
    account_store,    \* MolluskContext::account_store
    hydrate_store,    \* MolluskContext::hydrate_store
    call              \* the last harness call: its inputs and what it returned

vars == <<compute_budget, config, account_store, hydrate_store, call>>

\* Inputs the calls are drawn from.
\* Limits under which the first instruction, the second instruction and no
\* instruction of a message runs out of compute units.
ComputeUnitLimits ==
    {DEFAULT_COMPUTE_UNITS - 50, DEFAULT_COMPUTE_UNITS + 50, 2 * DEFAULT_COMPUTE_UNITS}

InputAccounts ==
    {Keyed(Alice, SystemAccount(MaxLamports)), Keyed(Alice, SystemAccount(0)),
     Keyed(Bob, SystemAccount(0)), Keyed(Carol, SystemAccount(0))}

AccountSeqs == UNION {[1..n -> InputAccounts] : n \in 0..MaxAccounts}

InstructionSet ==
    {Transfer(Alice, Bob, 1), Transfer(Alice, Bob, MaxLamports),
     UnsignedTransfer(Alice, Bob, 1), CreateAccount(Bob, Carol, MaxLamports)}

InstructionSeqs == UNION {[1..n -> InstructionSet] : n \in 0..MaxInstructions}

\* The last call of a test: `seq` counts the calls the test has made.
Call(seq, api, instructions, accounts, outcome, store_before) ==
    [seq |-> seq, api |-> api, instructions |-> instructions,
     accounts |-> accounts, outcome |-> outcome, store_before |-> store_before]

NoCall == Call(0, "none", <<>>, <<>>, Returned(DefaultResult, <<>>), EmptyStore)

\* A test: the instructions and accounts it is about to pass to the harness.
Pending(instructions, accounts) ==
    Call(0, "pending", instructions, accounts, Returned(DefaultResult, <<>>), EmptyStore)

\* Mollusk::default(), with the compute unit limit a test has set.
Init ==
    /\ compute_budget \in [compute_unit_limit : ComputeUnitLimits]
    /\ config = [panic |-> TRUE]
    /\ account_store = EmptyStore
    /\ hydrate_store = TRUE
    /\ call \in {Pending(instructions, accounts) :
                    instructions \in InstructionSeqs, accounts \in AccountSeqs}

ProcessInstruction ==
    /\ call.api = "pending"
    /\ Len(call.instructions) = 1
    /\ call' = Call(1, "process_instruction", call.instructions, call.accounts,
                 process_instruction(call.instructions[1], call.accounts,
                                     compute_budget.compute_unit_limit),
                 account_store)
    /\ UNCHANGED <<compute_budget, config, account_store, hydrate_store>>

ProcessInstructionChain ==
    /\ call.api = "pending"
    /\ call' = Call(1, "process_instruction_chain", call.instructions, call.accounts,
                 process_instruction_chain(call.instructions, call.accounts,
                                           compute_budget.compute_unit_limit),
                 account_store)
    /\ UNCHANGED <<compute_budget, config, account_store, hydrate_store>>

ProcessAndValidateInstructionChain ==
    /\ call.api = "pending"
    /\ call' = Call(1, "process_and_validate_instruction_chain", call.instructions,
                 call.accounts,
                 process_and_validate_instruction_chain(call.instructions,
                     [i \in 1..Len(call.instructions) |-> <<CheckSuccess>>],
                     call.accounts, compute_budget.compute_unit_limit, config.panic),
                 account_store)
    /\ UNCHANGED <<compute_budget, config, account_store, hydrate_store>>

ProcessTransactionInstructions ==
    /\ call.api = "pending"
    /\ call' = Call(1, "process_transaction_instructions", call.instructions,
                 call.accounts,
                 process_transaction_instructions(call.instructions, call.accounts,
                                                  compute_budget.compute_unit_limit),
                 account_store)
    /\ UNCHANGED <<compute_budget, config, account_store, hydrate_store>>

ProcessAndValidateInstruction ==
    /\ call.api = "pending"
    /\ Len(call.instructions) = 1
    /\ call' = Call(1, "process_and_validate_instruction", call.instructions,
                 call.accounts,
                 process_and_validate_instruction(call.instructions[1],
                     call.accounts, <<CheckSuccess>>,
                     compute_budget.compute_unit_limit, config.panic),
                 account_store)
    /\ UNCHANGED <<compute_budget, config, account_store, hydrate_store>>

Next ==
    \/ ProcessInstruction
    \/ ProcessAndValidateInstruction
    \/ ProcessInstructionChain
    \/ ProcessAndValidateInstructionChain
    \/ ProcessTransactionInstructions

Spec == Init /\ [][Next]_vars

\* ------------------------------------------- state machine of MolluskContext
\* The account stores a test hands to with_context.
UserStores ==
    {[k \in {Alice, Bob} |-> IF k = Alice THEN SystemAccount(MaxLamports)
                                          ELSE SystemAccount(0)],
     [k \in {Alice} |-> SystemAccount(MaxLamports)],
     [k \in {Alice, SYSTEM_PROGRAM, CLOCK} |->
         IF k = Alice THEN SystemAccount(MaxLamports)
         ELSE IF k = SYSTEM_PROGRAM
         THEN NewAccount(MaxLamports, <<0>>, NATIVE_LOADER, TRUE)
         ELSE NewAccount(MaxLamports, <<0>>, SYSVAR_OWNER, FALSE)]}

CtxInstructionSet ==
    {Transfer(Alice, Bob, 1), Transfer(Alice, SYSTEM_PROGRAM, 1),
     Transfer(Alice, CLOCK, 1), CreateAccount(Bob, Carol, MaxLamports)}

CtxInstructionSeqs ==
    UNION {[1..n -> CtxInstructionSet] : n \in 0..MaxInstructions}

\* Mollusk::default(): Config::default() panics on a failed check.
InitCtx ==
    /\ compute_budget = [compute_unit_limit |-> 2 * DEFAULT_COMPUTE_UNITS]
    /\ config = [panic |-> TRUE]
    /\ account_store \in {with_context(store) : store \in UserStores}
    /\ hydrate_store \in BOOLEAN
    /\ call = NoCall

\* The tail of every MolluskContext method: consume_mollusk_result, then
\* the result is returned.
CtxReturn(api, instructions, accounts, outcome) ==
    /\ call' = Call(call.seq + 1, api, instructions, accounts, outcome, account_store)
    /\ account_store' = consume_mollusk_result(account_store, outcome)
    /\ UNCHANGED <<compute_budget, config, hydrate_store>>

\* The Mollusk call of each MolluskContext method on the loaded accounts
CtxInstruction(instruction, accounts) ==
    CtxReturn("ctx_process_instruction", <<instruction>>, accounts,
        process_instruction(instruction, accounts,
                            compute_budget.compute_unit_limit))

CtxInstructionChain(instructions, accounts) ==
    CtxReturn("ctx_process_instruction_chain", instructions, accounts,
        process_instruction_chain(instructions, accounts,
                                  compute_budget.compute_unit_limit))

CtxValidateInstruction(instruction, accounts) ==
    CtxReturn("ctx_process_and_validate_instruction", <<instruction>>, accounts,
        process_and_validate_instruction(instruction, accounts, <<CheckSuccess>>,
            compute_budget.compute_unit_limit, config.panic))

CtxValidateInstructionChain(instructions, accounts) ==
    CtxReturn("ctx_process_and_validate_instruction_chain", instructions, accounts,
        process_and_validate_instruction_chain(instructions,
            [i \in 1..Len(instructions) |-> <<CheckSuccess>>], accounts,
            compute_budget.compute_unit_limit, config.panic))

\* MolluskContext::process_instruction
CtxProcessInstruction ==
    /\ call.seq < MaxCalls
    /\ \E instruction \in CtxInstructionSet :
        CtxInstruction(instruction,
            load_accounts_for_instructions(<<instruction>>, account_store,
                                           hydrate_store))

\* MolluskContext::process_instruction_chain
CtxProcessInstructionChain ==
    /\ call.seq < MaxCalls
    /\ \E instructions \in CtxInstructionSeqs :
        CtxInstructionChain(instructions,
            load_accounts_for_instructions(instructions, account_store,
                                           hydrate_store))

\* MolluskContext::process_and_validate_instruction
CtxProcessAndValidateInstruction ==
    /\ call.seq < MaxCalls
    /\ \E instruction \in CtxInstructionSet :
        CtxValidateInstruction(instruction,
            load_accounts_for_instructions(<<instruction>>, account_store,
                                           hydrate_store))

\* MolluskContext::process_and_validate_instruction_chain
CtxProcessAndValidateInstructionChain ==
    /\ call.seq < MaxCalls
    /\ \E instructions \in CtxInstructionSeqs :
        CtxValidateInstructionChain(instructions,
            load_accounts_for_instructions(instructions, account_store,
                                           hydrate_store))

NextCtx ==
    \/ CtxProcessInstruction
    \/ CtxProcessInstructionChain
    \/ CtxProcessAndValidateInstruction
    \/ CtxProcessAndValidateInstructionChain

SpecCtx == InitCtx /\ [][NextCtx]_vars


\* ------------------- state machine of the facade with programs that CPI
\* Limits under which the primary program runs out of compute units in its
\* second CPI, and under which two instructions with CPIs fit.
CpiComputeUnitLimits ==
    {PRIMARY_COMPUTE_UNITS + DEFAULT_COMPUTE_UNITS, 4 * DEFAULT_COMPUTE_UNITS}

\* program::keyed_account_for_system_program()
keyed_account_for_system_program ==
    create_keyed_account_for_builtin_program(SYSTEM_PROGRAM)

CpiInputAccounts ==
    {Keyed(Alice, SystemAccount(2 * MaxLamports)), Keyed(Bob, SystemAccount(0)),
     keyed_account_for_system_program}

CpiAccountSeqs == UNION {[1..n -> CpiInputAccounts] : n \in 0..MaxAccounts}

CpiInstructionSet ==
    {CpiTransfers(Alice, Bob, <<1>>), CpiTransfers(Alice, Bob, <<1, MaxLamports>>),
     CpiTransfers(Alice, Bob, <<MaxLamports, MaxLamports>>),
     Transfer(Alice, Bob, 1)}

CpiInstructionSeqs ==
    UNION {[1..n -> CpiInstructionSet] : n \in 0..MaxInstructions}

\* Mollusk::new(&PRIMARY, "test_program_primary"), with the compute unit
\* limit a test has set.
InitCpi ==
    /\ compute_budget \in [compute_unit_limit : CpiComputeUnitLimits]
    /\ config = [panic |-> TRUE]
    /\ account_store = EmptyStore
    /\ hydrate_store = TRUE
    /\ call \in {Pending(instructions, accounts) :
                    instructions \in CpiInstructionSeqs,
                    accounts \in CpiAccountSeqs}

SpecCpi == InitCpi /\ [][Next]_vars

\* ------------- state machine of the facade with the instructions sysvar
\* The output account of test_program_instructions_sysvar, with room for one
\* entry per instruction (instructions_sysvar.rs: output_space).
OutputAccount ==
    NewAccount(1, [c \in 1..(3 * MaxInstructions) |-> 0], IX_SYSVAR_PROGRAM, FALSE)

\* The instructions of test_instruction_chain, with one extra account.
FirstSysvarInstruction == SysvarInstruction(Carol, <<Meta(Alice, TRUE, FALSE)>>)

SecondSysvarInstruction == SysvarInstruction(Carol, <<Meta(Alice, TRUE, TRUE)>>)

SysvarInstructionSet ==
    {FirstSysvarInstruction, SecondSysvarInstruction,
     Flipped(FirstSysvarInstruction),
     Ed25519Verify(TRUE), Ed25519Verify(FALSE)}

SysvarInstructionSeqs ==
    UNION {[1..n -> SysvarInstructionSet] : n \in 0..MaxInstructions}

\* Accounts a test passes: the output account, the extra account, a program
\* account of its own, and for the instructions sysvar Account::default()
\* (test_override_sysvar_arbitrary) or the serialization of instructions
\* (test_override_sysvar_actual).
SysvarInputAccounts ==
    {Keyed(Carol, OutputAccount), Keyed(Alice, DefaultAccount),
     Keyed(IX_SYSVAR_PROGRAM, create_program_account_loader_v3(IX_SYSVAR_PROGRAM)),
     Keyed(INSTRUCTIONS_SYSVAR, DefaultAccount),
     keyed_account(<<FirstSysvarInstruction>>),
     keyed_account(<<FirstSysvarInstruction, SecondSysvarInstruction>>)}

SysvarAccountSeqs == UNION {[1..n -> SysvarInputAccounts] : n \in 0..MaxAccounts}

\* Mollusk::new(&IX_SYSVAR_PROGRAM, "test_program_instructions_sysvar")
InitSysvar ==
    /\ compute_budget = [compute_unit_limit |-> 4 * DEFAULT_COMPUTE_UNITS]
    /\ config = [panic |-> TRUE]
    /\ account_store = EmptyStore
    /\ hydrate_store = TRUE
    /\ call \in {Pending(instructions, accounts) :
                    instructions \in SysvarInstructionSeqs,
                    accounts \in SysvarAccountSeqs}

SpecSysvar == InitSysvar /\ [][Next]_vars

\* ------------------------------- state machine of the account compilation
\* An instruction of the primary test program over the given metas
\* (test_account_dedupe).
PrimaryInstruction(metas) ==
    [program_id |-> PRIMARY, accounts |-> metas, data |-> [op |-> "noop"]]

\* Instructions that name a key twice with different privileges, name a
\* program id and the instructions sysvar as accounts, and share keys.
CompileInstructionSet ==
    {PrimaryInstruction(<<Meta(Alice, FALSE, FALSE), Meta(Alice, TRUE, FALSE)>>),
     PrimaryInstruction(<<Meta(Alice, FALSE, TRUE), Meta(Alice, FALSE, FALSE)>>),
     PrimaryInstruction(<<Meta(Bob, FALSE, FALSE), Meta(INSTRUCTIONS_SYSVAR, FALSE, FALSE)>>),
     Transfer(Alice, Bob, 1),
     Transfer(Bob, SYSTEM_PROGRAM, 1)}

CompileInstructionSeqs ==
    UNION {[1..n -> CompileInstructionSet] : n \in 1..MaxInstructions}

\* Accounts a caller provides: two different accounts for one key, a program
\* account and an instructions sysvar account of its own.
CompileInputAccounts ==
    {Keyed(Alice, SystemAccount(1)), Keyed(Alice, SystemAccount(MaxLamports)),
     Keyed(Bob, SystemAccount(0)),
     Keyed(PRIMARY, NewAccount(MaxLamports, <<>>, LOADER_V3, TRUE)),
     Keyed(INSTRUCTIONS_SYSVAR, NewAccount(1, <<>>, SYSVAR_OWNER, FALSE))}

CompileAccountSeqs ==
    UNION {[1..n -> CompileInputAccounts] : n \in 0..(MaxAccounts - 1)}

\* Fallback maps: every map from some of these keys to an account that no
\* caller provides and no stub equals.
FallbackKeys == {Bob, PRIMARY, SYSTEM_PROGRAM, INSTRUCTIONS_SYSVAR}

FallbackMaps ==
    {[k \in keys |-> NewAccount(MaxLamports, <<0>>, k, k \in CachedPrograms)] :
        keys \in SUBSET FallbackKeys}

PendingCompile(instructions, accounts, fallback_accounts) ==
    [api |-> "pending_compile", instructions |-> instructions,
     accounts |-> accounts, fallback_accounts |-> fallback_accounts,
     compiled |-> AccountMissing(instructions, "")]

InitCompile ==
    /\ compute_budget = [compute_unit_limit |-> 2 * DEFAULT_COMPUTE_UNITS]
    /\ config = [panic |-> TRUE]
    /\ account_store = EmptyStore
    /\ hydrate_store = TRUE
    /\ call \in {PendingCompile(instructions, accounts, fallback_accounts) :
                    instructions \in CompileInstructionSeqs,
                    accounts \in CompileAccountSeqs,
                    fallback_accounts \in FallbackMaps}

\* compile_accounts::compile_accounts on the pending input
CompileAccounts ==
    /\ call.api = "pending_compile"
    /\ call' = [call EXCEPT
                  !.api = "compile_accounts",
                  !.compiled = compile_accounts(call.instructions, call.accounts,
                                                call.fallback_accounts)]
    /\ UNCHANGED <<compute_budget, config, account_store, hydrate_store>>

NextCompile == CompileAccounts

SpecCompile == InitCompile /\ [][NextCompile]_vars

\* ------------------------------ state machine of the trace deconstruction
\* The instruction traces an engine leaves in a transaction context that
\* started empty: the first entry is a top-level instruction and an entry is
\* nested at most one level deeper than the entry before it.
NestingSeqs ==
    {levels \in UNION {[1..n -> 0..MaxNesting] : n \in 0..MaxTraceLen} :
        /\ Len(levels) > 0 => levels[1] = 0
        /\ \A i \in 1..(Len(levels) - 1) : levels[i + 1] <= levels[i] + 1}

\* The trace with these nesting levels; entry i carries instruction i.
TraceOf(levels) ==
    [i \in 1..Len(levels) |->
        [nesting_level |-> levels[i], program_id |-> SYSTEM_PROGRAM,
         instruction |-> i]]

InitTrace ==
    /\ compute_budget = [compute_unit_limit |-> 2 * DEFAULT_COMPUTE_UNITS]
    /\ config = [panic |-> TRUE]
    /\ account_store = EmptyStore
    /\ hydrate_store = TRUE
    /\ call \in {[api |-> "pending_trace", ix_trace |-> TraceOf(levels),
                  all_inner_instructions |-> <<>>] : levels \in NestingSeqs}

\* Mollusk::deconstruct_inner_instructions on the trace of a transaction context
DeconstructInnerInstructions ==
    /\ call.api = "pending_trace"
    /\ call' = [call EXCEPT
                  !.api = "deconstruct_inner_instructions",
                  !.all_inner_instructions =
                      deconstruct_inner_instructions(
                          [instruction_trace |-> call.ix_trace])]
    /\ UNCHANGED <<compute_budget, config, account_store, hydrate_store>>

NextTrace == DeconstructInnerInstructions

SpecTrace == InitTrace /\ [][NextTrace]_vars

\* ------------------------------------- state machine of the program cache
MaxCacheCalls == 3

\* Builtin { program_id, name, entrypoint }
Builtin(program_id, name) == [program_id |-> program_id, name |-> name]

\* Builtin::program_cache_entry
program_cache_entry(builtin) ==
    [account_owner |-> ProgramCacheEntryOwner(NATIVE_LOADER),
     program |-> [kind |-> "Builtin", entrypoint |-> builtin.name]]

\* The ELFs that verify and load, and the bytes that do not
ValidElfs == {"elf_1", "elf_2"}
ElfSet == ValidElfs \cup {"not_an_elf"}

\* ProgramCacheEntry::new(loader_key, environment, 0, 0, elf, ..)
ProgramCacheEntryNew(loader_key, elf) ==
    [account_owner |-> ProgramCacheEntryOwner(loader_key),
     program |-> [kind |-> "Loaded", elf |-> elf]]

\* HashMap::insert / ProgramCacheForTxBatch::replenish: the entry of the key
\* is replaced
Insert(map, key, value) ==
    [k \in DOMAIN map \cup {key} |-> IF k = key THEN value ELSE map[k]]

\* A replenish that records the entry and leaves the engine cache alone.
replenish_entries_only(me, program_id, entry, elf_bytes) ==
    [me EXCEPT !.entries_cache =
        Insert(@, program_id,
               [loader_key |-> account_owner(entry), elf_bytes |-> elf_bytes])]

\* ProgramCache::replenish
replenish(me, program_id, entry, elf_bytes) ==
    [cache |-> Insert(me.cache, program_id, entry),
     entries_cache |->
        Insert(me.entries_cache, program_id,
               [loader_key |-> account_owner(entry), elf_bytes |-> elf_bytes])]

\* ProgramCache::add_builtin
add_builtin(me, builtin) ==
    [aborted |-> FALSE,
     me |-> replenish(me, builtin.program_id, program_cache_entry(builtin), None)]

\* ProgramCache::add_program: ProgramCacheEntry::new(..).unwrap() panics on
\* bytes that do not load, before anything is inserted.
add_program(me, program_id, loader_key, elf) ==
    IF elf \notin ValidElfs
    THEN [aborted |-> TRUE, me |-> me]
    ELSE [aborted |-> FALSE,
          me |-> replenish(me, program_id,
                           ProgramCacheEntryNew(loader_key, elf), Some(elf))]

\* static BUILTINS (default features)
BUILTINS ==
    <<Builtin(SYSTEM_PROGRAM, "system_program"),
      Builtin(LOADER_V2, "trezoa_bpf_loader_program"),
      Builtin(LOADER_V3, "trezoa_bpf_loader_upgradeable_program")>>

\* ProgramCache::new: BUILTINS.iter().for_each(replenish), from entry i on
RECURSIVE ReplenishBuiltins(_, _)
ReplenishBuiltins(me, i) ==
    IF i > Len(BUILTINS) THEN me
    ELSE ReplenishBuiltins(
            replenish(me, BUILTINS[i].program_id,
                      program_cache_entry(BUILTINS[i]), None),
            i + 1)

\* ProgramCache::new
ProgramCacheNew ==
    ReplenishBuiltins([cache |-> [k \in {} |-> None],
                       entries_cache |-> [k \in {} |-> None]], 1)

\* The program ids, builtins and loader keys the callers pass
CacheProgramIds == {SYSTEM_PROGRAM, PRIMARY, IX_SYSVAR_PROGRAM}
CallerBuiltins ==
    {Builtin(program_id, "custom_builtin") : program_id \in CacheProgramIds}
BpfLoaderKeys == {LOADER_V2, LOADER_V3}

\* One call on the program cache: its arguments, the cache before it and
\* the cache it left.
CacheCall(api, seq, program_id, loader_key, elf, before, added) ==
    [api |-> api, seq |-> seq, program_id |-> program_id,
     loader_key |-> loader_key, elf |-> elf, before |-> before,
     aborted |-> added.aborted, program_cache |-> added.me]

InitCache ==
    /\ compute_budget = [compute_unit_limit |-> 2 * DEFAULT_COMPUTE_UNITS]
    /\ config = [panic |-> TRUE]
    /\ account_store = EmptyStore
    /\ hydrate_store = TRUE
    /\ call = CacheCall("ProgramCache::new", 0, "", "", "",
                        ProgramCacheNew,
                        [aborted |-> FALSE, me |-> ProgramCacheNew])

\* ProgramCache::add_builtin
AddBuiltin ==
    /\ call.seq < MaxCacheCalls
    /\ ~call.aborted
    /\ \E builtin \in CallerBuiltins :
          call' = CacheCall("add_builtin", call.seq + 1, builtin.program_id,
                            "", "", call.program_cache,
                            add_builtin(call.program_cache, builtin))
    /\ UNCHANGED <<compute_budget, config, account_store, hydrate_store>>

\* ProgramCache::add_program
AddProgram ==
    /\ call.seq < MaxCacheCalls
    /\ ~call.aborted
    /\ \E program_id \in CacheProgramIds, loader_key \in BpfLoaderKeys,
          elf \in ElfSet :
          call' = CacheCall("add_program", call.seq + 1, program_id,
                            loader_key, elf, call.program_cache,
                            add_program(call.program_cache, program_id,
                                        loader_key, elf))
    /\ UNCHANGED <<compute_budget, config, account_store, hydrate_store>>

NextCache == AddBuiltin \/ AddProgram

SpecCache == InitCache /\ [][NextCache]_vars

\* ----------------------- state machine of the facade with an unknown program
\* Instructions of a builtin, of an added program, of a precompile and of a
\* program that is not in the cache.
LoaderInstructionSet ==
    {Transfer(Alice, Bob, 1), CpiTransfers(Alice, Bob, <<1>>),
     Ed25519Verify(TRUE), UncachedInstruction}

LoaderInstructionSeqs ==
    UNION {[1..n -> LoaderInstructionSet] : n \in 0..MaxInstructions}

\* Accounts a test passes, with or without the accounts of the programs
LoaderInputAccounts ==
    {Keyed(Alice, SystemAccount(MaxLamports)), Keyed(Bob, SystemAccount(0)),
     Keyed(UNCACHED_PROGRAM, create_program_account_loader_v3(UNCACHED_PROGRAM)),
     Keyed(PRIMARY, create_program_account_loader_v3(PRIMARY)),
     create_keyed_account_for_builtin_program(SYSTEM_PROGRAM)}

LoaderAccountSeqs == UNION {[1..n -> LoaderInputAccounts] : n \in 0..MaxAccounts}

\* Mollusk::new(&PRIMARY, "test_program_primary")
InitLoader ==
    /\ compute_budget = [compute_unit_limit |-> 4 * DEFAULT_COMPUTE_UNITS]
    /\ config = [panic |-> TRUE]
    /\ account_store = EmptyStore
    /\ hydrate_store = TRUE
    /\ call \in {Pending(instructions, accounts) :
                    instructions \in LoaderInstructionSeqs,
                    accounts \in LoaderAccountSeqs}

SpecLoader == InitLoader /\ [][Next]_vars

\* ------------------------------------------- state machine of the checks
\* Results a test validates: a success with one written account, a failure
\* with a default account and an account that is not rent exempt, and the
\* default result.
CheckedAccount == NewAccount(3, <<4, 4>>, PRIMARY, FALSE)

CheckedResults ==
    {[DefaultResult EXCEPT !.compute_units_consumed = DEFAULT_COMPUTE_UNITS,
                           !.return_data = <<1>>,
                           !.resulting_accounts = <<Keyed(Alice, CheckedAccount)>>],
     [DefaultResult EXCEPT !.program_result = Failure(RESULT_WITH_NEGATIVE_LAMPORTS),
                           !.raw_result = Err(RESULT_WITH_NEGATIVE_LAMPORTS),
                           !.resulting_accounts =
                               <<Keyed(Alice, DefaultAccount),
                                 Keyed(Bob, NewAccount(1, <<4>>, PRIMARY, FALSE))>>],
     DefaultResult}

\* AccountCheckBuilder::data_slice(offset, data)
DataSlice(pubkey, offset, data) ==
    [AccountCheck(pubkey) EXCEPT
        !.check_data_slice = Some([offset |-> offset, data |-> data])]

\* The checks of the tests: every check type, account checks that hold for
\* CheckedAccount, that fail, that name a missing account, and data slices
\* inside the data, behind it and at the end of the usize range.
CheckSet ==
    {CheckSuccess, CheckProgramResult(Failure(RESULT_WITH_NEGATIVE_LAMPORTS)),
     CheckComputeUnits(DEFAULT_COMPUTE_UNITS), CheckTime(0),
     CheckReturnData(<<1>>), CheckAllRentExempt, CheckInnerInstructionCount(0),
     [AccountCheck(Alice) EXCEPT !.check_data = Some(<<4, 4>>),
                                 !.check_lamports = Some(3),
                                 !.check_owner = Some(PRIMARY),
                                 !.check_space = Some(2),
                                 !.check_executable = Some(FALSE)],
     [AccountCheck(Alice) EXCEPT !.check_state = Some("Closed")],
     [AccountCheck(Alice) EXCEPT !.check_state = Some("RentExempt")],
     [AccountCheck(Bob) EXCEPT !.check_state = Some("RentExempt")],
     [AccountCheck(Carol) EXCEPT !.check_lamports = Some(0)],
     DataSlice(Alice, 1, <<4>>), DataSlice(Alice, 2, <<4>>),
     DataSlice(Alice, 0, <<4, 5>>),
     DataSlice(Alice, USIZE_RANGE - 1, <<4>>),
     DataSlice(Alice, USIZE_RANGE - 1, <<4, 4>>),
     [DataSlice(Alice, USIZE_RANGE - 1, <<4>>) EXCEPT !.check_lamports = Some(0)]}

CheckSeqs == UNION {[1..n -> CheckSet] : n \in 0..2}

\* A result about to be validated, with the Config and the build profile
PendingChecks(result, checks, panic, overflow_checks) ==
    [api |-> "pending_checks", seq |-> 0, result |-> result, checks |-> checks,
     c |-> [panic |-> panic], overflow_checks |-> overflow_checks,
     verdict |-> [panicked |-> FALSE, value |-> TRUE]]

InitChecks ==
    /\ compute_budget = [compute_unit_limit |-> 2 * DEFAULT_COMPUTE_UNITS]
    /\ config = [panic |-> TRUE]
    /\ account_store = EmptyStore
    /\ hydrate_store = TRUE
    /\ call \in {PendingChecks(result, checks, panic, overflow_checks) :
                    result \in CheckedResults, checks \in CheckSeqs,
                    panic \in BOOLEAN, overflow_checks \in BOOLEAN}

\* A validation that takes the return data out of the result it checked.
run_checks_taking_return_data(pending) ==
    [pending EXCEPT
        !.api = "run_checks",
        !.seq = @ + 1,
        !.result.return_data = <<>>,
        !.verdict = run_checks_with(pending.checks, pending.c,
                                    pending.overflow_checks, pending.result)]

\* InstructionResult::run_checks(&self, checks, config, context): the
\* result, the checks, the Config and the verdict after the call
InstructionResult_run_checks(pending) ==
    [pending EXCEPT
        !.api = "run_checks",
        !.seq = @ + 1,
        !.verdict = run_checks_with(pending.checks, pending.c,
                                    pending.overflow_checks, pending.result)]

\* InstructionResult::run_checks(checks, config, context); a call that
\* panicked is not followed by another.
RunChecks ==
    /\ call.api \in {"pending_checks", "run_checks"}
    /\ call.seq < MaxCalls
    /\ ~call.verdict.panicked
    /\ call' = InstructionResult_run_checks(call)
    /\ UNCHANGED <<compute_budget, config, account_store, hydrate_store>>

NextChecks == RunChecks

SpecChecks == InitChecks /\ [][NextChecks]_vars

\* ------------------------------------------- state machine of the compare
\* Results a fixture run compares: the results of the checks, a result that
\* differs from the first in its execution time only, one with a second
\* account behind the first, and one whose account holds other lamports.
CompareResults ==
    CheckedResults \cup
    {[DefaultResult EXCEPT !.compute_units_consumed = DEFAULT_COMPUTE_UNITS,
                           !.execution_time = 1,
                           !.return_data = <<1>>,
                           !.resulting_accounts = <<Keyed(Alice, CheckedAccount)>>],
     [DefaultResult EXCEPT !.compute_units_consumed = DEFAULT_COMPUTE_UNITS,
                           !.return_data = <<1>>,
                           !.resulting_accounts =
                               <<Keyed(Alice, CheckedAccount),
                                 Keyed(Bob, NewAccount(1, <<4>>, PRIMARY, FALSE))>>],
     [DefaultResult EXCEPT !.compute_units_consumed = DEFAULT_COMPUTE_UNITS,
                           !.return_data = <<1>>,
                           !.resulting_accounts =
                               <<Keyed(Alice, NewAccount(5, <<4, 4>>, PRIMARY, FALSE))>>]}

\* The selectors of a config file: every variant, an account selector with
\* the lamports toggle off, and address lists that name the first account,
\* the second, or none.
CompareSet ==
    {CompareComputeUnits, CompareExecutionTime, CompareProgramResult,
     CompareReturnData, all_resulting_accounts,
     AllResultingAccounts(CompareAccountFields(TRUE, TRUE, FALSE, TRUE, TRUE)),
     only_resulting_accounts(<<Alice>>), only_resulting_accounts(<<Bob>>),
     all_resulting_accounts_except(<<Alice>>), all_resulting_accounts_except(<<>>)}

CompareSeqs == UNION {[1..n -> CompareSet] : n \in 0..2}

\* cli main, SubCommand::ExecuteFixture: the checks of the config file, or
\* a preset chosen by --ignore-compute-units
ExecuteFixtureChecks(config_file, ignore_compute_units) ==
    IF config_file # None THEN config_file[1]
    ELSE IF ignore_compute_units THEN everything_but_cus
    ELSE everything

\* Two results about to be compared under the checks the command line gives
PendingCompare(a, b, config_file, ignore_compute_units, panic) ==
    [api |-> "pending_compare", a |-> a, b |-> b, config_file |-> config_file,
     ignore_compute_units |-> ignore_compute_units,
     checks |-> ExecuteFixtureChecks(config_file, ignore_compute_units),
     c |-> [panic |-> panic],
     verdict |-> [panicked |-> FALSE, value |-> TRUE]]

InitCompare ==
    /\ compute_budget = [compute_unit_limit |-> 2 * DEFAULT_COMPUTE_UNITS]
    /\ config = [panic |-> TRUE]
    /\ account_store = EmptyStore
    /\ hydrate_store = TRUE
    /\ call \in {PendingCompare(a, b, config_file, ignore_compute_units, panic) :
                    a \in CompareResults, b \in CompareResults,
                    config_file \in {None} \cup {Some(checks) : checks \in CompareSeqs},
                    ignore_compute_units \in BOOLEAN, panic \in BOOLEAN}

\* a.compare_with_config(&b, &checks, &config)
CompareWithConfig ==
    /\ call.api = "pending_compare"
    /\ call' = [call EXCEPT
                  !.api = "compare_with_config",
                  !.verdict = compare_with_config(call.a, call.b, call.checks, call.c)]
    /\ UNCHANGED <<compute_budget, config, account_store, hydrate_store>>

NextCompare == CompareWithConfig

SpecCompare == InitCompare /\ [][NextCompare]_vars

\* ----------------------------------- error codes of the Firedancer fixtures
\* The range of i32
I32_MAX == 2147483647
I32_MIN == (0 - I32_MAX) - 1

\* The variants of InstructionError in declaration order; the serialized
\* form starts with the position of the variant, from 0.
InstructionErrorVariants ==
    <<"GenericError", "InvalidArgument", "InvalidInstructionData",
      "InvalidAccountData", "AccountDataTooSmall", "InsufficientFunds",
      "IncorrectProgramId", "MissingRequiredSignature",
      "AccountAlreadyInitialized", "UninitializedAccount",
      "UnbalancedInstruction", "ModifiedProgramId",
      "ExternalAccountLamportSpend", "ExternalAccountDataModified",
      "ReadonlyLamportChange", "ReadonlyDataModified", "DuplicateAccountIndex",
      "ExecutableModified", "RentEpochModified", "NotEnoughAccountKeys",
      "AccountDataSizeChanged", "AccountNotExecutable", "AccountBorrowFailed",
      "AccountBorrowOutstanding", "DuplicateAccountOutOfSync", "Custom",
      "InvalidError", "ExecutableDataModified", "ExecutableLamportChange",
      "ExecutableAccountNotRentExempt", "UnsupportedProgramId", "CallDepth",
      "MissingAccount", "ReentrancyNotAllowed", "MaxSeedLengthExceeded",
      "InvalidSeeds", "InvalidRealloc", "ComputationalBudgetExceeded",
      "PrivilegeEscalation", "ProgramEnvironmentSetupFailure",
      "ProgramFailedToComplete", "ProgramFailedToCompile", "Immutable",
      "IncorrectAuthority", "BorshIoError", "AccountNotRentExempt",
      "InvalidAccountOwner", "ArithmeticOverflow", "UnsupportedSysvar",
      "IllegalOwner", "MaxAccountsDataAllocationsExceeded",
      "MaxAccountsExceeded", "MaxInstructionTraceLengthExceeded",
      "BuiltinProgramsMustConsumeComputeUnits">>

\* An InstructionError without a code
UnitError(name) == [name |-> name, code |-> 0]

VariantIndex(name) ==
    (CHOOSE i \in 1..Len(InstructionErrorVariants) :
         InstructionErrorVariants[i] = name) - 1

\* u32::to_le_bytes for values below 2^31
u32_to_le_bytes(n) ==
    <<n % 256, (n \div 256) % 256, (n \div 65536) % 256, n \div 16777216>>

\* u32::from_le_bytes for values below 2^31
u32_from_le_bytes(bytes) ==
    bytes[1] + 256 * bytes[2] + 65536 * bytes[3] + 16777216 * bytes[4]

\* i32::from_le_bytes: two's complement
i32_from_le_bytes(bytes) ==
    IF bytes[4] < 128 THEN u32_from_le_bytes(bytes)
    ELSE (u32_from_le_bytes([bytes EXCEPT ![4] = @ - 128]) - I32_MAX) - 1

\* `(v as u64).to_le_bytes()` of an i32: the sign is extended.
i32_as_u64_to_le_bytes(v) ==
    IF v >= 0 THEN u32_to_le_bytes(v) \o <<0, 0, 0, 0>>
    ELSE [u32_to_le_bytes((v + I32_MAX) + 1) EXCEPT ![4] = @ + 128]
         \o <<255, 255, 255, 255>>

\* bincode::serialize of an InstructionError: the position of the variant
\* as u32, then the code of Custom; where the build's BorshIoError carries a
\* message, its length as u64 (the empty message here).
serialize(error, borsh_message) ==
    u32_to_le_bytes(VariantIndex(error.name)) \o
    (IF error.name = "Custom" THEN u32_to_le_bytes(error.code)
     ELSE IF error.name = "BorshIoError" /\ borsh_message
     THEN <<0, 0, 0, 0, 0, 0, 0, 0>>
     ELSE <<>>)

\* bincode::deserialize of eight bytes as an InstructionError: fails on a
\* position without a variant and on a message whose length does not fit
\* in the four bytes that are left.
deserialize(bytes, borsh_message) ==
    IF bytes[4] >= 128 \/ u32_from_le_bytes(bytes) >= Len(InstructionErrorVariants)
    THEN Err("invalid variant index")
    ELSE IF InstructionErrorVariants[u32_from_le_bytes(bytes) + 1] = "Custom"
    THEN [ok |-> TRUE, value |-> Custom(u32_from_le_bytes(SubSeq(bytes, 5, 8)))]
    ELSE IF InstructionErrorVariants[u32_from_le_bytes(bytes) + 1] = "BorshIoError"
            /\ borsh_message
    THEN Err("unexpected end of input")
    ELSE [ok |-> TRUE,
          value |-> UnitError(InstructionErrorVariants[u32_from_le_bytes(bytes) + 1])]

\* An encoding that is the position of the variant itself.
instr_err_to_num_from_zero(error, borsh_message) ==
    i32_from_le_bytes(SubSeq(serialize(error, borsh_message), 1, 4))

\* instr_err_to_num
instr_err_to_num(error, borsh_message) ==
    i32_from_le_bytes(SubSeq(serialize(error, borsh_message), 1, 4)) + 1

\* `let mut deser = bincode::deserialize(&le).unwrap()` and the custom code
Deserialized(deser, custom_code) ==
    IF ~deser.ok THEN [panicked |-> TRUE, value |-> UnitError("")]
    ELSE IF custom_code # 0 /\ deser.value.name = "Custom"
    THEN [panicked |-> FALSE, value |-> Custom(custom_code)]
    ELSE [panicked |-> FALSE, value |-> deser.value]

\* num_to_instr_err: `num - 1` of i32::MIN panics in a build with overflow
\* checks and wraps to i32::MAX in a build without.
num_to_instr_err(num, custom_code, overflow_checks, borsh_message) ==
    IF num = I32_MIN /\ overflow_checks
    THEN [panicked |-> TRUE, value |-> UnitError("")]
    ELSE Deserialized(
             deserialize(i32_as_u64_to_le_bytes(
                             IF num = I32_MIN THEN I32_MAX ELSE num - 1),
                         borsh_message),
             custom_code)

\* FuzzEffects: the fields of the program result
FuzzEffects(program_result, program_custom_code) ==
    [program_result |-> program_result,
     program_custom_code |-> program_custom_code]

\* build_fixture_effects: program_result and program_custom_code
build_fixture_effects(raw_result, borsh_message) ==
    IF raw_result.ok THEN FuzzEffects(0, 0)
    ELSE FuzzEffects(instr_err_to_num(raw_result.err, borsh_message),
                     IF raw_result.err.name = "Custom" THEN raw_result.err.code
                     ELSE 0)

\* parse_fixture_effects: raw_result, or that the call panics
parse_fixture_effects(effects, overflow_checks, borsh_message) ==
    IF effects.program_result = 0 THEN [panicked |-> FALSE, value |-> Ok]
    ELSE IF num_to_instr_err(effects.program_result, effects.program_custom_code,
                             overflow_checks, borsh_message).panicked
    THEN [panicked |-> TRUE, value |-> Ok]
    ELSE [panicked |-> FALSE,
          value |-> Err(num_to_instr_err(effects.program_result,
                                         effects.program_custom_code,
                                         overflow_checks, borsh_message).value)]

\* The codes of test_num_to_instr_err and the largest the model holds
CustomCodes == {0, 1, 2, 5, 400, 600, 1000, I32_MAX}

\* Every variant without a code (BorshIoError with the empty message where
\* it carries one) and Custom with the codes above
FuzzErrors ==
    {UnitError(InstructionErrorVariants[i]) :
         i \in (1..Len(InstructionErrorVariants)) \ {VariantIndex("Custom") + 1}}
    \cup {Custom(c) : c \in CustomCodes}

\* Program results of fixtures read from files: success, variants, numbers
\* without a variant, and the ends of the range of i32
FixtureNums ==
    {I32_MIN, 0 - 1, 0, 1, 26, 45, 54, 55, 257, 16777217, I32_MAX}

\* A result about to be written to a fixture, or the effects of a fixture
\* read from a file; the build's overflow checks and its BorshIoError
PendingResult(raw_result, overflow_checks, borsh_message) ==
    [api |-> "pending_result", raw_result |-> raw_result,
     effects |-> FuzzEffects(0, 0), overflow_checks |-> overflow_checks,
     borsh_message |-> borsh_message,
     parsed |-> [panicked |-> FALSE, value |-> Ok]]

LoadedFixture(effects, overflow_checks, borsh_message) ==
    [api |-> "loaded_fixture", raw_result |-> Ok, effects |-> effects,
     overflow_checks |-> overflow_checks, borsh_message |-> borsh_message,
     parsed |-> [panicked |-> FALSE, value |-> Ok]]

InitFuzz ==
    /\ compute_budget = [compute_unit_limit |-> 2 * DEFAULT_COMPUTE_UNITS]
    /\ config = [panic |-> TRUE]
    /\ account_store = EmptyStore
    /\ hydrate_store = TRUE
    /\ call \in
          {PendingResult(raw_result, overflow_checks, borsh_message) :
               raw_result \in {Ok} \cup {Err(e) : e \in FuzzErrors},
               overflow_checks \in BOOLEAN, borsh_message \in BOOLEAN}
          \cup
          {LoadedFixture(FuzzEffects(num, code), overflow_checks, borsh_message) :
               num \in FixtureNums, code \in {0, 5},
               overflow_checks \in BOOLEAN, borsh_message \in BOOLEAN}

\* build_fixture_effects(context, result)
BuildFixtureEffects ==
    /\ call.api = "pending_result"
    /\ call' = [call EXCEPT
                  !.api = "build_fixture_effects",
                  !.effects = build_fixture_effects(call.raw_result,
                                                    call.borsh_message)]
    /\ UNCHANGED <<compute_budget, config, account_store, hydrate_store>>

\* parse_fixture_effects(accounts, compute_unit_limit, effects)
ParseFixtureEffects ==
    /\ call.api \in {"build_fixture_effects", "loaded_fixture"}
    /\ call' = [call EXCEPT
                  !.api = IF call.api = "loaded_fixture"
                          THEN "parse_loaded_effects"
                          ELSE "parse_fixture_effects",
                  !.parsed = parse_fixture_effects(call.effects,
                                                   call.overflow_checks,
                                                   call.borsh_message)]
    /\ UNCHANGED <<compute_budget, config, account_store, hydrate_store>>

NextFuzz == BuildFixtureEffects \/ ParseFixtureEffects

SpecFuzz == InitFuzz /\ [][NextFuzz]_vars

\* ------------------------------------------- effects of Firedancer fixtures
\* An account of a FuzzContext or of FuzzEffects: (key, account, seed_addr)
Seeded(key, account, seed_addr) ==
    [key |-> key, account |-> account, seed_addr |-> seed_addr]

\* u64::saturating_sub
saturating_sub(a, b) == IF a >= b THEN a - b ELSE 0

\* The filter_map of build_fixture_effects over context.accounts from entry i
\* on: the accounts found in the result whose state differs from the context's.
RECURSIVE ModifiedFrom(_, _, _)
ModifiedFrom(context_accounts, resulting_accounts, i) ==
    IF i > Len(context_accounts) THEN <<>>
    ELSE (IF /\ FindIndex(resulting_accounts, context_accounts[i].key) # 0
             /\ context_accounts[i].account #
                    resulting_accounts[
                        FindIndex(resulting_accounts, context_accounts[i].key)].account
          THEN <<Seeded(context_accounts[i].key,
                        resulting_accounts[
                            FindIndex(resulting_accounts,
                                      context_accounts[i].key)].account,
                        context_accounts[i].seed_addr)>>
          ELSE <<>>)
         \o ModifiedFrom(context_accounts, resulting_accounts, i + 1)

\* build_fixture_effects: the whole FuzzEffects
FuzzEffectsFrom(context, result, borsh_message) ==
    [program_result |->
         build_fixture_effects(result.raw_result, borsh_message).program_result,
     program_custom_code |->
         build_fixture_effects(result.raw_result, borsh_message).program_custom_code,
     modified_accounts |->
         ModifiedFrom(context.accounts, result.resulting_accounts, 1),
     compute_units_available |->
         saturating_sub(context.compute_units_available,
                        result.compute_units_consumed),
     return_data |-> result.return_data]

\* A reconstruction that returns the modified accounts only.
ResultingModifiedOnly(accounts, modified_accounts) ==
    [i \in 1..Len(modified_accounts) |->
        Keyed(modified_accounts[i].key, modified_accounts[i].account)]

\* The map of parse_fixture_effects over the input accounts: the first
\* modified account with the key, else the input account
Resulting(accounts, modified_accounts) ==
    [i \in 1..Len(accounts) |->
        Keyed(accounts[i].key,
              IF FindIndex(modified_accounts, accounts[i].key) # 0
              THEN modified_accounts[
                       FindIndex(modified_accounts, accounts[i].key)].account
              ELSE accounts[i].account)]

\* parse_fixture_effects: the InstructionResult, or that the call panics
InstructionResultFrom(accounts, compute_unit_limit, effects, overflow_checks, borsh_message) ==
    [panicked |->
         parse_fixture_effects(effects, overflow_checks, borsh_message).panicked,
     value |->
         [compute_units_consumed |->
              saturating_sub(compute_unit_limit, effects.compute_units_available),
          execution_time |-> 0,
          program_result |->
              ProgramResultFrom(
                  parse_fixture_effects(effects, overflow_checks,
                                        borsh_message).value),
          raw_result |->
              parse_fixture_effects(effects, overflow_checks, borsh_message).value,
          return_data |-> effects.return_data,
          resulting_accounts |-> Resulting(accounts, effects.modified_accounts),
          inner_instructions |-> <<>>,
          message |-> <<>>]]

\* Accounts of fixtures: two keys in two states each, and a key that only
\* effects read from a file name
EffectsAccountSet ==
    {Keyed(k, a) : k \in {Alice, Bob},
                   a \in {NewAccount(3, <<4>>, PRIMARY, FALSE),
                          NewAccount(5, <<4>>, PRIMARY, FALSE)}}

EffectsAccountSeqs == UNION {[1..n -> EffectsAccountSet] : n \in 0..2}

ModifiedSet ==
    {Seeded(e.key, e.account, None) : e \in EffectsAccountSet}
    \cup {Seeded(Carol, NewAccount(5, <<4>>, PRIMARY, FALSE), None)}

ModifiedSeqs == UNION {[1..n -> ModifiedSet] : n \in 0..2}

\* Compute units: a limit, and units consumed or left below and above it
EffectsUnits == {0, DEFAULT_COMPUTE_UNITS, 2 * DEFAULT_COMPUTE_UNITS}

\* FuzzContext: the fields the effects are built from
FuzzContextOf(accounts, compute_units_available) ==
    [accounts |-> [i \in 1..Len(accounts) |->
                      Seeded(accounts[i].key, accounts[i].account, None)],
     compute_units_available |-> compute_units_available]

\* context.accounts as parse_fixture_context returns them
ParsedAccounts(context) ==
    [i \in 1..Len(context.accounts) |->
        Keyed(context.accounts[i].key, context.accounts[i].account)]

\* A result about to be written to a fixture with its context, or a fixture
\* read from a file
PendingEffects(context, result) ==
    [api |-> "pending_effects", context |-> context, result |-> result,
     effects |-> FuzzEffectsFrom(FuzzContextOf(<<>>, 0), DefaultResult, FALSE),
     parsed |-> [panicked |-> FALSE, value |-> DefaultResult]]

LoadedEffects(context, effects) ==
    [api |-> "loaded_effects", context |-> context, result |-> DefaultResult,
     effects |-> effects,
     parsed |-> [panicked |-> FALSE, value |-> DefaultResult]]

InitEffects ==
    /\ compute_budget = [compute_unit_limit |-> 2 * DEFAULT_COMPUTE_UNITS]
    /\ config = [panic |-> TRUE]
    /\ account_store = EmptyStore
    /\ hydrate_store = TRUE
    /\ call \in
          {PendingEffects(
               FuzzContextOf(accounts, DEFAULT_COMPUTE_UNITS),
               [DefaultResult EXCEPT
                   !.raw_result = raw_result,
                   !.program_result = ProgramResultFrom(raw_result),
                   !.compute_units_consumed = units,
                   !.return_data = return_data,
                   !.resulting_accounts = resulting_accounts]) :
               accounts \in EffectsAccountSeqs,
               raw_result \in {Ok, Err(Custom(5))},
               units \in EffectsUnits,
               return_data \in {<<>>, <<1>>},
               resulting_accounts \in EffectsAccountSeqs}
          \cup
          {LoadedEffects(
               FuzzContextOf(accounts, DEFAULT_COMPUTE_UNITS),
               [program_result |-> num, program_custom_code |-> 0,
                modified_accounts |-> modified_accounts,
                compute_units_available |-> units,
                return_data |-> <<1>>]) :
               accounts \in EffectsAccountSeqs,
               num \in {0, 26},
               modified_accounts \in ModifiedSeqs,
               units \in EffectsUnits}

\* build_fixture_effects(&input, result) of build_fixture_from_mollusk_test
BuildEffects ==
    /\ call.api = "pending_effects"
    /\ call' = [call EXCEPT
                  !.api = "build_effects",
                  !.effects = FuzzEffectsFrom(call.context, call.result, FALSE)]
    /\ UNCHANGED <<compute_budget, config, account_store, hydrate_store>>

\* load_firedancer_fixture: parse_fixture_effects on the parsed accounts and
\* the context's compute units
ParseEffects ==
    /\ call.api \in {"build_effects", "loaded_effects"}
    /\ call' = [call EXCEPT
                  !.api = IF call.api = "loaded_effects" THEN "parse_loaded"
                          ELSE "parse_built",
                  !.parsed = InstructionResultFrom(
                                 ParsedAccounts(call.context),
                                 call.context.compute_units_available,
                                 call.effects, TRUE, FALSE)]
    /\ UNCHANGED <<compute_budget, config, account_store, hydrate_store>>

NextEffects == BuildEffects \/ ParseEffects

SpecEffects == InitEffects /\ [][NextEffects]_vars

\* --------------------------------------------- contexts of Mollusk fixtures
\* trezoa_feature_set: the two features the default compute budget reads
RAISE_CPI_NESTING_LIMIT_TO_8 == "raise_cpi_nesting_limit_to_8"
INCREASE_CPI_ACCOUNT_INFO_LIMIT == "increase_cpi_account_info_limit"

\* Sysvars of the harness: the seven sysvars of the block
Sysvars(clock, epoch_rewards, epoch_schedule, last_restart_slot, rent, slot_hashes, stake_history) ==
    [clock |-> clock, epoch_rewards |-> epoch_rewards,
     epoch_schedule |-> epoch_schedule, last_restart_slot |-> last_restart_slot,
     rent |-> rent, slot_hashes |-> slot_hashes, stake_history |-> stake_history]

\* LastRestartSlot::default()
DefaultLastRestartSlot == [last_restart_slot |-> 0]

\* Inserts a (slot, hash) pair into a list sorted by descending slot, behind
\* the pairs of the same slot (a stable sort).
RECURSIVE InsertDescending(_, _)
InsertDescending(sorted, slot_hash) ==
    IF sorted = <<>> THEN <<slot_hash>>
    ELSE IF sorted[1].slot >= slot_hash.slot
    THEN <<sorted[1]>> \o InsertDescending(Tail(sorted), slot_hash)
    ELSE <<slot_hash>> \o sorted

\* SlotHashes::new(slot_hashes): a copy sorted by descending slot
RECURSIVE SlotHashesFrom(_, _)
SlotHashesFrom(slot_hashes, i) ==
    IF i = 0 THEN <<>>
    ELSE InsertDescending(SlotHashesFrom(slot_hashes, i - 1), slot_hashes[i])

SlotHashesNew(slot_hashes) == SlotHashesFrom(slot_hashes, Len(slot_hashes))

\* impl From<&Sysvars> for FuzzSysvars: six sysvars
FuzzSysvarsFrom(input) ==
    [clock |-> input.clock, epoch_rewards |-> input.epoch_rewards,
     epoch_schedule |-> input.epoch_schedule, rent |-> input.rent,
     slot_hashes |-> SlotHashesNew(input.slot_hashes),
     stake_history |-> input.stake_history]

\* impl From<&FuzzSysvars> for Sysvars: the last restart slot is the default.
SysvarsFrom(input) ==
    Sysvars(input.clock, input.epoch_rewards, input.epoch_schedule,
            DefaultLastRestartSlot, input.rent,
            SlotHashesNew(input.slot_hashes), input.stake_history)

\* fuzz::mollusk::build_fixture_context
build_fixture_context(accounts, budget, feature_set, instruction, sysvars) ==
    [compute_budget |-> budget,
     feature_set |-> feature_set,
     sysvars |-> FuzzSysvarsFrom(sysvars),
     program_id |-> instruction.program_id,
     instruction_accounts |-> instruction.accounts,
     instruction_data |-> instruction.data,
     accounts |-> accounts]

\* Instruction::new_with_bytes(program_id, data, accounts)
new_with_bytes(program_id, data, accounts) ==
    [program_id |-> program_id, accounts |-> accounts, data |-> data]

\* fuzz::mollusk::parse_fixture_context
parse_fixture_context(context) ==
    [accounts |-> context.accounts,
     compute_budget |-> context.compute_budget,
     feature_set |-> context.feature_set,
     instruction |-> new_with_bytes(context.program_id, context.instruction_data,
                                    context.instruction_accounts),
     sysvars |-> SysvarsFrom(context.sysvars)]

\* Sysvar blocks of a harness: the default block, a block warped to a slot
\* with slot hashes, and blocks whose last restart slot is set
SlotHashLists ==
    {<<>>, <<[slot |-> 2, hash |-> 7]>>,
     <<[slot |-> 2, hash |-> 7], [slot |-> 1, hash |-> 8]>>}

SysvarBlocks ==
    {Sysvars([slot |-> slot], [active |-> FALSE], [slots_per_epoch |-> 32],
             [last_restart_slot |-> restart], [lamports_per_byte_year |-> rent],
             slot_hashes, <<>>) :
        slot \in {0, 5}, restart \in {0, 3}, rent \in {1, 2},
        slot_hashes \in SlotHashLists}

\* Compute budgets: the unit limit and the two limits that depend on features
FixtureBudget(compute_unit_limit, simd_0268_active, simd_0339_active) ==
    [compute_unit_limit |-> compute_unit_limit,
     max_instruction_stack_depth |-> IF simd_0268_active THEN 9 ELSE 5,
     max_cpi_account_infos |-> IF simd_0339_active THEN 255 ELSE 128]

FixtureBudgets ==
    {FixtureBudget(DEFAULT_COMPUTE_UNITS, FALSE, FALSE),
     FixtureBudget(2 * DEFAULT_COMPUTE_UNITS, TRUE, TRUE)}

FixtureFeatureSets == {{}, {RAISE_CPI_NESTING_LIMIT_TO_8}}

FixtureInstructions ==
    {Transfer(Alice, Bob, 1), UncachedInstruction,
     [program_id |-> SYSTEM_PROGRAM, accounts |-> <<>>, data |-> [op |-> "noop"]]}

\* The context of no test: what the call holds before a context is built
NoContext ==
    build_fixture_context(<<>>, FixtureBudget(0, FALSE, FALSE), {},
                          new_with_bytes(SYSTEM_PROGRAM, <<>>, <<>>),
                          Sysvars(0, 0, 0, 0, 0, <<>>, 0))

\* A test about to be written to a fixture
PendingFixture(accounts, budget, feature_set, instruction, sysvars) ==
    [api |-> "pending_fixture", accounts |-> accounts, compute_budget |-> budget,
     feature_set |-> feature_set, instruction |-> instruction,
     sysvars |-> sysvars, context |-> NoContext,
     parsed |-> parse_fixture_context(NoContext)]

InitFixture ==
    /\ compute_budget = [compute_unit_limit |-> 2 * DEFAULT_COMPUTE_UNITS]
    /\ config = [panic |-> TRUE]
    /\ account_store = EmptyStore
    /\ hydrate_store = TRUE
    /\ call \in {PendingFixture(accounts, budget, feature_set, instruction, sysvars) :
                    accounts \in EffectsAccountSeqs, budget \in FixtureBudgets,
                    feature_set \in FixtureFeatureSets,
                    instruction \in FixtureInstructions,
                    sysvars \in SysvarBlocks}

\* build_fixture_context of build_fixture_from_mollusk_test
BuildFixtureContext ==
    /\ call.api = "pending_fixture"
    /\ call' = [call EXCEPT
                  !.api = "build_fixture_context",
                  !.context = build_fixture_context(
                                  call.accounts, call.compute_budget,
                                  call.feature_set, call.instruction, call.sysvars)]
    /\ UNCHANGED <<compute_budget, config, account_store, hydrate_store>>

\* parse_fixture_context of load_fixture
ParseFixtureContext ==
    /\ call.api = "build_fixture_context"
    /\ call' = [call EXCEPT
                  !.api = "parse_fixture_context",
                  !.parsed = parse_fixture_context(call.context)]
    /\ UNCHANGED <<compute_budget, config, account_store, hydrate_store>>

NextFixture == BuildFixtureContext \/ ParseFixtureContext

SpecFixture == InitFixture /\ [][NextFixture]_vars

\* ------------------------------------- protobuf contexts of Mollusk fixtures
\* ComputeBudget::new_with_defaults: the largest unit limit, and the two
\* limits that follow SIMD-0268 and SIMD-0339
MAX_COMPUTE_UNIT_LIMIT == 1400000

\* A default budget that ignores the features.
new_with_defaults_inactive(simd_0268_active, simd_0339_active) ==
    FixtureBudget(MAX_COMPUTE_UNIT_LIMIT, FALSE, FALSE)

new_with_defaults(simd_0268_active, simd_0339_active) ==
    FixtureBudget(MAX_COMPUTE_UNIT_LIMIT, simd_0268_active, simd_0339_active)

\* The features a fixture can name, and the first eight bytes of each id as
\* the protobuf message holds them
KnownFeatures == {RAISE_CPI_NESTING_LIMIT_TO_8, INCREASE_CPI_ACCOUNT_INFO_LIMIT}

FeaturePrefix(feature) == IF feature = RAISE_CPI_NESTING_LIMIT_TO_8 THEN 268 ELSE 339

\* proto_feature_set_with(features)
ProtoFeatureSet(features) ==
    [features |-> [i \in 1..Len(features) |-> FeaturePrefix(features[i])]]

\* impl From<ProtoFeatureSet> for FeatureSet: the known features whose
\* prefix the message lists are active.
FeatureSetFrom(proto) ==
    {feature \in KnownFeatures :
        \E i \in 1..Len(proto.features) : proto.features[i] = FeaturePrefix(feature)}

\* FeatureSet::default(): no feature is active.
DefaultFeatureSet == {}

\* FeatureSet::is_active
is_active(feature_set, feature) == feature \in feature_set

\* Sysvars::default() of the fixture crate
DefaultFuzzSysvars ==
    FuzzSysvarsFrom(Sysvars([slot |-> 0], [active |-> FALSE],
                            [slots_per_epoch |-> 32], DefaultLastRestartSlot,
                            [lamports_per_byte_year |-> 1], <<>>, <<>>))

\* The instruction accounts of From<ProtoContext> for Context: the key at
\* each index of `accounts`
InstructionAccountsFrom(instr_accounts, accounts) ==
    [i \in 1..Len(instr_accounts) |->
        Meta(accounts[instr_accounts[i].index + 1].key,
             instr_accounts[i].is_signer, instr_accounts[i].is_writable)]

\* impl From<ProtoContext> for Context: the context, or that an `expect`
\* panics (a program id that is not 32 bytes, an index behind the accounts)
ContextFrom(value) ==
    IF value.program_id.len # 32
       \/ \E i \in 1..Len(value.instr_accounts) :
             value.instr_accounts[i].index >= Len(value.accounts)
    THEN [panicked |-> TRUE, value |-> NoContext]
    ELSE [panicked |-> FALSE,
          value |->
            [compute_budget |->
                 IF value.compute_budget # None THEN value.compute_budget[1]
                 ELSE new_with_defaults(
                          is_active(IF value.feature_set # None
                                    THEN FeatureSetFrom(value.feature_set[1])
                                    ELSE DefaultFeatureSet,
                                    RAISE_CPI_NESTING_LIMIT_TO_8),
                          is_active(IF value.feature_set # None
                                    THEN FeatureSetFrom(value.feature_set[1])
                                    ELSE DefaultFeatureSet,
                                    INCREASE_CPI_ACCOUNT_INFO_LIMIT)),
             feature_set |->
                 IF value.feature_set # None
                 THEN FeatureSetFrom(value.feature_set[1])
                 ELSE DefaultFeatureSet,
             sysvars |->
                 IF value.sysvars # None THEN value.sysvars[1]
                 ELSE DefaultFuzzSysvars,
             program_id |-> value.program_id.key,
             instruction_accounts |->
                 InstructionAccountsFrom(value.instr_accounts, value.accounts),
             instruction_data |-> value.data,
             accounts |-> value.accounts]]

\* The messages of the tests and of fixture files: each optional field
\* missing or present, feature lists with each feature, both, neither and an
\* unknown one, program ids of 32 and of 31 bytes, instruction accounts
\* inside and behind the accounts
ProtoFeatureSets ==
    {ProtoFeatureSet(<<>>), ProtoFeatureSet(<<RAISE_CPI_NESTING_LIMIT_TO_8>>),
     ProtoFeatureSet(<<INCREASE_CPI_ACCOUNT_INFO_LIMIT>>),
     ProtoFeatureSet(<<RAISE_CPI_NESTING_LIMIT_TO_8,
                       INCREASE_CPI_ACCOUNT_INFO_LIMIT>>),
     [features |-> <<1>>]}

ProtoBudgets ==
    {FixtureBudget(12345, FALSE, FALSE), FixtureBudget(12345, TRUE, TRUE)}

ProtoInstrAccounts ==
    {<<>>, <<[index |-> 0, is_signer |-> TRUE, is_writable |-> TRUE]>>,
     <<[index |-> 1, is_signer |-> FALSE, is_writable |-> TRUE]>>}

ProtoAccounts ==
    {<<>>, <<Keyed(Alice, SystemAccount(1))>>,
     <<Keyed(Alice, SystemAccount(1)), Keyed(Bob, SystemAccount(0))>>}

ProtoContexts ==
    {[compute_budget |-> budget, feature_set |-> feature_set,
      sysvars |-> sysvars, program_id |-> [key |-> SYSTEM_PROGRAM, len |-> len],
      instr_accounts |-> instr_accounts, data |-> [op |-> "noop"],
      accounts |-> accounts] :
        budget \in {None} \cup {Some(b) : b \in ProtoBudgets},
        feature_set \in {None} \cup {Some(f) : f \in ProtoFeatureSets},
        sysvars \in {None, Some(FuzzSysvarsFrom(
                               Sysvars([slot |-> 5], [active |-> FALSE],
                                       [slots_per_epoch |-> 32],
                                       DefaultLastRestartSlot,
                                       [lamports_per_byte_year |-> 2], <<>>, <<>>)))},
        len \in {31, 32},
        instr_accounts \in ProtoInstrAccounts,
        accounts \in ProtoAccounts}

InitProto ==
    /\ compute_budget = [compute_unit_limit |-> 2 * DEFAULT_COMPUTE_UNITS]
    /\ config = [panic |-> TRUE]
    /\ account_store = EmptyStore
    /\ hydrate_store = TRUE
    /\ call \in {[api |-> "proto_context", proto |-> proto,
                  context |-> [panicked |-> FALSE, value |-> NoContext]] :
                    proto \in ProtoContexts}

\* Context::from(proto)
DecodeContext ==
    /\ call.api = "proto_context"
    /\ call' = [call EXCEPT !.api = "context_from",
                            !.context = ContextFrom(call.proto)]
    /\ UNCHANGED <<compute_budget, config, account_store, hydrate_store>>

NextProto == DecodeContext

SpecProto == InitProto /\ [][NextProto]_vars

\* ------------------------------------------------ fixtures on one harness
\* Calls a test makes on one harness before and between its fixtures
MaxFixtureCalls == 2

\* The fields of Mollusk that loading a fixture may touch
Mollusk(budget, feature_set, sysvars, slot, program_cache) ==
    [compute_budget |-> budget, feature_set |-> feature_set,
     sysvars |-> sysvars, slot |-> slot, program_cache |-> program_cache]

\* fuzz::firedancer::parse_fixture_context: the parsed context, or that
\* `.expect("Index out of bounds")` panics
firedancer_parse_fixture_context(context) ==
    IF \E i \in 1..Len(context.instruction_accounts) :
          context.instruction_accounts[i].index_in_transaction
              >= Len(context.accounts)
    THEN [panicked |-> TRUE, value |-> parse_fixture_context(NoContext)]
    ELSE [panicked |-> FALSE,
          value |->
            [accounts |-> ParsedAccounts(context),
             compute_budget |->
                 [new_with_defaults(TRUE, TRUE) EXCEPT
                     !.compute_unit_limit = context.compute_units_available],
             feature_set |-> context.epoch_context.feature_set,
             instruction |->
                 new_with_bytes(context.program_id, context.instruction_data,
                     [i \in 1..Len(context.instruction_accounts) |->
                         Meta(context.accounts[
                                  context.instruction_accounts[i]
                                      .index_in_transaction + 1].key,
                              context.instruction_accounts[i].is_signer,
                              context.instruction_accounts[i].is_writable)]),
             slot |-> context.slot_context.slot]]

\* Mollusk::process_fixture that keeps the sysvars of the harness
process_fixture_keeping_sysvars(self, fixture) ==
    [self |-> [self EXCEPT
                 !.compute_budget = parse_fixture_context(fixture.input).compute_budget,
                 !.feature_set = parse_fixture_context(fixture.input).feature_set],
     outcome |-> process_instruction(
                     parse_fixture_context(fixture.input).instruction,
                     parse_fixture_context(fixture.input).accounts,
                     parse_fixture_context(fixture.input).compute_budget
                         .compute_unit_limit)]

\* Mollusk::process_fixture: the harness it leaves and what it returns
process_fixture(self, fixture) ==
    [self |-> [self EXCEPT
                 !.compute_budget = parse_fixture_context(fixture.input).compute_budget,
                 !.feature_set = parse_fixture_context(fixture.input).feature_set,
                 !.sysvars = parse_fixture_context(fixture.input).sysvars],
     outcome |-> process_instruction(
                     parse_fixture_context(fixture.input).instruction,
                     parse_fixture_context(fixture.input).accounts,
                     parse_fixture_context(fixture.input).compute_budget
                         .compute_unit_limit)]

\* Mollusk::process_firedancer_fixture: the harness it leaves and what it
\* returns; a panic of the parser leaves the harness as it was
process_firedancer_fixture(self, fixture) ==
    IF firedancer_parse_fixture_context(fixture.input).panicked
    THEN [self |-> self, outcome |-> Aborted(<<>>)]
    ELSE [self |-> [self EXCEPT
                     !.compute_budget =
                         firedancer_parse_fixture_context(fixture.input)
                             .value.compute_budget,
                     !.feature_set =
                         firedancer_parse_fixture_context(fixture.input)
                             .value.feature_set,
                     !.slot =
                         firedancer_parse_fixture_context(fixture.input).value.slot],
          outcome |-> process_instruction(
                     firedancer_parse_fixture_context(fixture.input).value.instruction,
                     firedancer_parse_fixture_context(fixture.input).value.accounts,
                     firedancer_parse_fixture_context(fixture.input)
                         .value.compute_budget.compute_unit_limit)]

\* Mollusk::add_program_with_loader_and_elf
add_program_with_loader_and_elf(self, program_id, loader_key, elf) ==
    [self |-> [self EXCEPT
                 !.program_cache =
                     add_program(self.program_cache, program_id, loader_key, elf).me],
     aborted |-> add_program(self.program_cache, program_id, loader_key, elf).aborted]

\* Fixtures of files: accounts with and without the two parties of a
\* transfer, budgets, feature sets, sysvars and slots that differ from the
\* harness's own, a cached and an uncached program
HarnessAccountSeqs ==
    {<<>>, <<Keyed(Alice, SystemAccount(MaxLamports)), Keyed(Bob, SystemAccount(0))>>}

HarnessSysvarBlocks ==
    {Sysvars([slot |-> slot], [active |-> FALSE], [slots_per_epoch |-> 32],
             [last_restart_slot |-> 3], [lamports_per_byte_year |-> slot + 1],
             <<>>, <<>>) : slot \in {0, 5}}

MolluskFixtures ==
    {[input |-> build_fixture_context(accounts, budget, feature_set,
                                      instruction, sysvars)] :
        accounts \in HarnessAccountSeqs, budget \in FixtureBudgets,
        feature_set \in FixtureFeatureSets,
        instruction \in {Transfer(Alice, Bob, 1), UncachedInstruction},
        sysvars \in HarnessSysvarBlocks}

FiredancerFixtures ==
    {[input |->
        [program_id |-> SYSTEM_PROGRAM,
         accounts |-> [i \in 1..Len(accounts) |->
                          Seeded(accounts[i].key, accounts[i].account, None)],
         instruction_accounts |->
             <<[index_in_transaction |-> 0, is_signer |-> TRUE, is_writable |-> TRUE],
               [index_in_transaction |-> 1, is_signer |-> FALSE, is_writable |-> TRUE]>>,
         instruction_data |-> [op |-> "transfer", amount |-> 1],
         compute_units_available |-> units,
         slot_context |-> [slot |-> slot],
         epoch_context |-> [feature_set |-> feature_set]]] :
        accounts \in HarnessAccountSeqs,
        units \in {DEFAULT_COMPUTE_UNITS - 50, 2 * DEFAULT_COMPUTE_UNITS},
        slot \in {0, 7}, feature_set \in FixtureFeatureSets}

\* One call on the harness: the harness before it, the fixture it was given,
\* the fields it left (the compute budget is the variable) and what it
\* returned
HarnessCall(api, seq, before, fixture, after, outcome) ==
    [api |-> api, seq |-> seq, before |-> before, fixture |-> fixture,
     feature_set |-> after.feature_set, sysvars |-> after.sysvars,
     slot |-> after.slot, program_cache |-> after.program_cache,
     outcome |-> outcome]

\* The harness the next call is made on
HarnessSelf ==
    Mollusk(compute_budget, call.feature_set, call.sysvars, call.slot,
            call.program_cache)

\* Mollusk::default(), warped or not
InitHarness ==
    /\ compute_budget = FixtureBudget(2 * DEFAULT_COMPUTE_UNITS, TRUE, TRUE)
    /\ config = [panic |-> TRUE]
    /\ account_store = EmptyStore
    /\ hydrate_store = TRUE
    /\ call \in {HarnessCall("Mollusk::default", 0,
                     Mollusk(compute_budget, KnownFeatures, sysvars, 0,
                             ProgramCacheNew),
                     [input |-> NoContext],
                     Mollusk(compute_budget, KnownFeatures, sysvars, 0,
                             ProgramCacheNew),
                     Returned(DefaultResult, <<>>)) :
                    sysvars \in HarnessSysvarBlocks}

\* Mollusk::add_program_with_loader_and_elf
AddProgramWithLoaderAndElf ==
    /\ call.seq < MaxFixtureCalls
    /\ ~call.outcome.aborted
    /\ \E loader_key \in BpfLoaderKeys, elf \in ElfSet :
          /\ call' = HarnessCall("add_program_with_loader_and_elf", call.seq + 1,
                         HarnessSelf, [input |-> NoContext],
                         add_program_with_loader_and_elf(
                             HarnessSelf, PRIMARY, loader_key, elf).self,
                         IF add_program_with_loader_and_elf(
                                HarnessSelf, PRIMARY, loader_key, elf).aborted
                         THEN Aborted(<<>>)
                         ELSE Returned(DefaultResult, <<>>))
    /\ UNCHANGED <<compute_budget, config, account_store, hydrate_store>>

\* Mollusk::process_fixture
ProcessFixture ==
    /\ call.seq < MaxFixtureCalls
    /\ ~call.outcome.aborted
    /\ \E fixture \in MolluskFixtures :
          /\ compute_budget' = process_fixture(HarnessSelf, fixture).self.compute_budget
          /\ call' = HarnessCall("process_fixture", call.seq + 1, HarnessSelf,
                         fixture, process_fixture(HarnessSelf, fixture).self,
                         process_fixture(HarnessSelf, fixture).outcome)
    /\ UNCHANGED <<config, account_store, hydrate_store>>

\* Mollusk::process_firedancer_fixture
ProcessFiredancerFixture ==
    /\ call.seq < MaxFixtureCalls
    /\ ~call.outcome.aborted
    /\ \E fixture \in FiredancerFixtures :
          /\ compute_budget' =
                 process_firedancer_fixture(HarnessSelf, fixture).self.compute_budget
          /\ call' = HarnessCall("process_firedancer_fixture", call.seq + 1,
                         HarnessSelf, fixture,
                         process_firedancer_fixture(HarnessSelf, fixture).self,
                         process_firedancer_fixture(HarnessSelf, fixture).outcome)
    /\ UNCHANGED <<config, account_store, hydrate_store>>

NextHarness ==
    \/ AddProgramWithLoaderAndElf
    \/ ProcessFixture
    \/ ProcessFiredancerFixture

SpecHarness == InitHarness /\ [][NextHarness]_vars

\* ------------------------------------------------------------- epoch stake
\* u64, scaled to 16 bits
U64_RANGE == 65536

\* Inserts a test makes into the epoch-stake map
MaxInserts == 3

\* HashMap::insert
insert(map, key, value) ==
    [k \in DOMAIN map \cup {key} |-> IF k = key THEN value ELSE map[k]]

\* The sum of the values of a map, as a number
RECURSIVE ValuesSum(_, _)
ValuesSum(map, keys) ==
    IF keys = {} THEN 0
    ELSE map[CHOOSE k \in keys : TRUE]
         + ValuesSum(map, keys \ {CHOOSE k \in keys : TRUE})

\* Iterator::sum::<u64>(): `+` with the overflow checks of the build. The
\* partial sums only grow, so every iteration order overflows or none does.
u64_sum(total, overflow_checks) ==
    IF total >= U64_RANGE /\ overflow_checks
    THEN [panicked |-> TRUE, value |-> 0]
    ELSE [panicked |-> FALSE, value |-> total % U64_RANGE]

\* MolluskInvokeContextCallback::get_epoch_stake
get_epoch_stake(epoch_stake, overflow_checks) ==
    u64_sum(ValuesSum(epoch_stake, DOMAIN epoch_stake), overflow_checks)

\* MolluskInvokeContextCallback::get_epoch_stake_for_vote_account
get_epoch_stake_for_vote_account(epoch_stake, vote_address) ==
    IF vote_address \in DOMAIN epoch_stake THEN epoch_stake[vote_address] ELSE 0

\* Vote addresses and stakes of the tests: none, small ones, and stakes
\* near the end of the u64 range
VoteAddresses == {Alice, Bob, Carol}
Stakes == {0, 1, 1000, U64_RANGE \div 2, U64_RANGE - 1}

\* EpochStake::default()
EmptyEpochStake == [k \in {} |-> 0]

\* The epoch-stake map of the harness and the last call on it or on the
\* callback the engine holds
StakeCall(api, seq, epoch_stake, overflow_checks, vote_address, reported) ==
    [api |-> api, seq |-> seq, epoch_stake |-> epoch_stake,
     overflow_checks |-> overflow_checks, vote_address |-> vote_address,
     reported |-> reported]

InitStake ==
    /\ compute_budget = [compute_unit_limit |-> 2 * DEFAULT_COMPUTE_UNITS]
    /\ config = [panic |-> TRUE]
    /\ account_store = EmptyStore
    /\ hydrate_store = TRUE
    /\ call \in {StakeCall("EpochStake::default", 0, EmptyEpochStake,
                           overflow_checks, "", [panicked |-> FALSE, value |-> 0]) :
                    overflow_checks \in BOOLEAN}

\* mollusk.epoch_stake.insert(vote_address, stake)
InsertEpochStake ==
    /\ call.seq < MaxInserts
    /\ ~call.reported.panicked
    /\ \E vote_address \in VoteAddresses, stake \in Stakes :
          call' = StakeCall("insert", call.seq + 1,
                            insert(call.epoch_stake, vote_address, stake),
                            call.overflow_checks, vote_address,
                            [panicked |-> FALSE, value |-> stake])
    /\ UNCHANGED <<compute_budget, config, account_store, hydrate_store>>

\* The engine asks the callback for the total stake
GetEpochStake ==
    /\ ~call.reported.panicked
    /\ call' = StakeCall("get_epoch_stake", call.seq, call.epoch_stake,
                         call.overflow_checks, "",
                         get_epoch_stake(call.epoch_stake, call.overflow_checks))
    /\ UNCHANGED <<compute_budget, config, account_store, hydrate_store>>

\* The engine asks the callback for the stake of a vote address
GetEpochStakeForVoteAccount ==
    /\ ~call.reported.panicked
    /\ \E vote_address \in VoteAddresses :
          call' = StakeCall("get_epoch_stake_for_vote_account", call.seq,
                            call.epoch_stake, call.overflow_checks, vote_address,
                            [panicked |-> FALSE,
                             value |-> get_epoch_stake_for_vote_account(
                                           call.epoch_stake, vote_address)])
    /\ UNCHANGED <<compute_budget, config, account_store, hydrate_store>>

NextStake == InsertEpochStake \/ GetEpochStake \/ GetEpochStakeForVoteAccount

SpecStake == InitStake /\ [][NextStake]_vars

\* -------------------------------------------------------- mock epoch stake
\* BASE_STAKE_PER_ACCOUNT (100_000_000_000 lamports), scaled with the u64
\* range: the largest total makes thirteen accounts
BASE_STAKE_PER_ACCOUNT == 5000

\* for_each(|stake| epoch_stake.insert(Pubkey::new_unique(), stake)) from
\* the i-th stake on; new_unique counts up from `unique`
RECURSIVE InsertEach(_, _, _, _)
InsertEach(epoch_stake, stakes, unique, i) ==
    IF i > Len(stakes) THEN epoch_stake
    ELSE InsertEach(insert(epoch_stake, unique + i - 1, stakes[i]),
                    stakes, unique, i + 1)

\* create_mock_epoch_stake whose last account holds the remainder alone
create_mock_epoch_stake_remainder_apart(target_total, unique) ==
    IF target_total = 0 THEN EmptyEpochStake
    ELSE IF target_total \div BASE_STAKE_PER_ACCOUNT = 0
    THEN insert(EmptyEpochStake, unique, target_total)
    ELSE InsertEach(EmptyEpochStake,
             [i \in 1..(target_total \div BASE_STAKE_PER_ACCOUNT) |->
                 IF i < target_total \div BASE_STAKE_PER_ACCOUNT
                 THEN BASE_STAKE_PER_ACCOUNT
                 ELSE target_total % BASE_STAKE_PER_ACCOUNT],
             unique, 1)

\* create_mock_epoch_stake: repeat_n(BASE, num_accounts - 1) chained with
\* once(BASE + remainder); the sum of the last stake is below twice the base
\* stake and cannot leave the u64 range
create_mock_epoch_stake(target_total, unique) ==
    IF target_total = 0 THEN EmptyEpochStake
    ELSE IF target_total \div BASE_STAKE_PER_ACCOUNT = 0
    THEN insert(EmptyEpochStake, unique, target_total)
    ELSE InsertEach(EmptyEpochStake,
             [i \in 1..(target_total \div BASE_STAKE_PER_ACCOUNT) |->
                 IF i < target_total \div BASE_STAKE_PER_ACCOUNT
                 THEN BASE_STAKE_PER_ACCOUNT
                 ELSE (BASE_STAKE_PER_ACCOUNT
                       + (target_total % BASE_STAKE_PER_ACCOUNT)) % U64_RANGE],
             unique, 1)

\* Targets: every u64
MockTargets == 0..(U64_RANGE - 1)

InitMock ==
    /\ compute_budget = [compute_unit_limit |-> 2 * DEFAULT_COMPUTE_UNITS]
    /\ config = [panic |-> TRUE]
    /\ account_store = EmptyStore
    /\ hydrate_store = TRUE
    /\ call \in {[api |-> "pending_mock", target_total |-> target_total,
                  unique |-> unique, epoch_stake |-> EmptyEpochStake] :
                    target_total \in MockTargets, unique \in {1, 7}}

\* create_mock_epoch_stake(target_total)
CreateMockEpochStake ==
    /\ call.api = "pending_mock"
    /\ call' = [call EXCEPT
                  !.api = "create_mock_epoch_stake",
                  !.epoch_stake =
                      create_mock_epoch_stake(call.target_total, call.unique)]
    /\ UNCHANGED <<compute_budget, config, account_store, hydrate_store>>

NextMock == CreateMockEpochStake

SpecMock == InitMock /\ [][NextMock]_vars

\* -------------------------------------------------------------- CLI runner
\* Fixture files of one run
MaxFixtures == 3

\* Exit code of a process that panicked
PANIC_EXIT_CODE == 101

\* A fixture file as the runner sees it: whether processing it panics on the
\* ground or the target harness (a file that does not decode, a program that
\* is not cached), and what the three compare_with_config calls return
FixtureFile(ground_panics, target_panics, ground_effects, target_effects, ground_target) ==
    [ground_panics |-> ground_panics, target_panics |-> target_panics,
     ground_matches_effects |-> ground_effects,
     target_matches_effects |-> target_effects,
     ground_matches_target |-> ground_target]

\* Runner: the fields `run` branches on; `ground` is whether run_all was
\* given a ground harness (command run-test)
Runner(inputs_only, ground) == [inputs_only |-> inputs_only, ground |-> ground]

\* Runner::run that compares the target with the effects only
run_without_ground(self, fixture) ==
    IF (self.ground /\ fixture.ground_panics) \/ fixture.target_panics
    THEN [panicked |-> TRUE, pass |-> FALSE]
    ELSE [panicked |-> FALSE,
          pass |-> (self.inputs_only \/ fixture.target_matches_effects)]

\* Runner::run: `pass` after the three `pass &= ..compare_with_config(..)`,
\* or that run_fixture panicked
run(self, fixture) ==
    IF (self.ground /\ fixture.ground_panics) \/ fixture.target_panics
    THEN [panicked |-> TRUE, pass |-> FALSE]
    ELSE [panicked |-> FALSE,
          pass |->
            /\ (self.ground /\ ~self.inputs_only) => fixture.ground_matches_effects
            /\ ~self.inputs_only => fixture.target_matches_effects
            /\ self.ground => fixture.ground_matches_target]

\* The fixture files of the runs
FixtureFiles ==
    {FixtureFile(FALSE, FALSE, TRUE, TRUE, TRUE),
     FixtureFile(FALSE, FALSE, TRUE, FALSE, TRUE),
     FixtureFile(FALSE, FALSE, FALSE, TRUE, TRUE),
     FixtureFile(FALSE, FALSE, TRUE, TRUE, FALSE),
     FixtureFile(FALSE, TRUE, TRUE, TRUE, TRUE),
     FixtureFile(TRUE, FALSE, TRUE, TRUE, TRUE)}

FixtureFileSeqs == UNION {[1..n -> FixtureFiles] : n \in 0..MaxFixtures}

\* The runners main builds: execute-fixture with and without --inputs-only,
\* and run-test, which passes inputs_only = true
Runners == {Runner(FALSE, FALSE), Runner(TRUE, FALSE), Runner(TRUE, TRUE)}

\* The process: the position of run_all's loop, what it printed, and the
\* exit code once the process has ended
RunnerProcess(api, self, fixtures, index, failures, printed, reported, exit_code) ==
    [api |-> api, self |-> self, fixtures |-> fixtures, index |-> index,
     failures |-> failures, printed |-> printed, reported |-> reported,
     exit_code |-> exit_code]

InitRunner ==
    /\ compute_budget = [compute_unit_limit |-> 2 * DEFAULT_COMPUTE_UNITS]
    /\ config = [panic |-> TRUE]
    /\ account_store = EmptyStore
    /\ hydrate_store = TRUE
    /\ call \in {RunnerProcess("run_all", self, fixtures, 0, 0, <<>>, None, None) :
                    self \in Runners, fixtures \in FixtureFileSeqs}

\* One iteration of the loop of run_all: `self.run(..)?`, then the count
RunFixture ==
    /\ call.api \in {"run_all", "run"}
    /\ call.index < Len(call.fixtures)
    /\ call' =
          IF run(call.self, call.fixtures[call.index + 1]).panicked
          THEN [call EXCEPT !.api = "panicked",
                            !.exit_code = Some(PANIC_EXIT_CODE)]
          ELSE [call EXCEPT
                  !.api = "run",
                  !.index = call.index + 1,
                  !.failures =
                      IF run(call.self, call.fixtures[call.index + 1]).pass
                      THEN call.failures ELSE call.failures + 1,
                  !.printed =
                      Append(call.printed,
                          [line |-> IF run(call.self,
                                           call.fixtures[call.index + 1]).pass
                                    THEN "PASS" ELSE "FAIL",
                           fixture_path |-> call.index + 1])]
    /\ UNCHANGED <<compute_budget, config, account_store, hydrate_store>>

\* The end of run_all: the failure count is printed, and the process exits
\* with 1 if there were failures
ReportFailures ==
    /\ call.api \in {"run_all", "run"}
    /\ call.index >= Len(call.fixtures)
    /\ call' = [call EXCEPT
                  !.api = IF call.failures > 0 THEN "exit" ELSE "reported",
                  !.reported = Some(call.failures),
                  !.exit_code = IF call.failures > 0 THEN Some(1) ELSE None]
    /\ UNCHANGED <<compute_budget, config, account_store, hydrate_store>>

\* run_all returned Ok(()) and main returns Ok(())
MainReturns ==
    /\ call.api = "reported"
    /\ call' = [call EXCEPT !.api = "main_returned", !.exit_code = Some(0)]
    /\ UNCHANGED <<compute_budget, config, account_store, hydrate_store>>

NextRunner == RunFixture \/ ReportFailures \/ MainReturns

SpecRunner == InitRunner /\ [][NextRunner]_vars

\* The process runs until it ends
SpecRunnerFair == SpecRunner /\ WF_vars(NextRunner)

\* ------------------------------------------------------- duplicated keys
\* Accounts of one call when keys are passed more than once
MaxDedupeAccounts == 4

\* Accounts passed with the same key and different values, for keys the
\* instructions reference and for a key they may leave out
DedupeInputAccounts ==
    {Keyed(Alice, SystemAccount(MaxLamports)), Keyed(Alice, SystemAccount(0)),
     Keyed(Bob, SystemAccount(0)),
     Keyed(Carol, SystemAccount(0)), Keyed(Carol, SystemAccount(1))}

DedupeAccountSeqs ==
    UNION {[1..n -> DedupeInputAccounts] : n \in 0..MaxDedupeAccounts}

DedupeInstructionSet == {Transfer(Alice, Bob, 1), Transfer(Bob, Carol, 1)}

DedupeInstructionSeqs ==
    UNION {[1..n -> DedupeInstructionSet] : n \in 0..MaxInstructions}

\* Mollusk::default() and a call whose accounts repeat keys
InitDedupe ==
    /\ compute_budget = [compute_unit_limit |-> 2 * DEFAULT_COMPUTE_UNITS]
    /\ config = [panic |-> TRUE]
    /\ account_store = EmptyStore
    /\ hydrate_store = TRUE
    /\ call \in {Pending(instructions, accounts) :
                    instructions \in DedupeInstructionSeqs,
                    accounts \in DedupeAccountSeqs}

SpecDedupe == InitDedupe /\ [][Next]_vars

\* ------------------------------------------- compare under different keys
\* Results that differ in their resulting accounts only: the same states
\* under the same and under other keys, in the same and in swapped order
KeyedAccountLists ==
    {<<Keyed(Alice, CheckedAccount)>>, <<Keyed(Bob, CheckedAccount)>>,
     <<Keyed(Alice, NewAccount(1, <<4>>, PRIMARY, FALSE))>>,
     <<Keyed(Alice, CheckedAccount), Keyed(Bob, NewAccount(1, <<4>>, PRIMARY, FALSE))>>,
     <<Keyed(Bob, CheckedAccount), Keyed(Alice, NewAccount(1, <<4>>, PRIMARY, FALSE))>>,
     <<Keyed(Bob, NewAccount(1, <<4>>, PRIMARY, FALSE)), Keyed(Alice, CheckedAccount)>>}

KeyedResults ==
    {[DefaultResult EXCEPT !.compute_units_consumed = DEFAULT_COMPUTE_UNITS,
                           !.return_data = <<1>>,
                           !.resulting_accounts = accounts] :
        accounts \in KeyedAccountLists}

InitCompareKeys ==
    /\ compute_budget = [compute_unit_limit |-> 2 * DEFAULT_COMPUTE_UNITS]
    /\ config = [panic |-> TRUE]
    /\ account_store = EmptyStore
    /\ hydrate_store = TRUE
    /\ call \in {PendingCompare(a, b, config_file, ignore_compute_units, panic) :
                    a \in KeyedResults, b \in KeyedResults,
                    config_file \in {None} \cup {Some(checks) : checks \in CompareSeqs},
                    ignore_compute_units \in BOOLEAN, panic \in BOOLEAN}

SpecCompareKeys == InitCompareKeys /\ [][NextCompare]_vars

\* ------------------------------------------------------------------- claims
FacadeApis == {"process_instruction", "process_and_validate_instruction",
               "process_instruction_chain",
               "process_and_validate_instruction_chain",
               "process_transaction_instructions"}

ChainApis == {"process_instruction_chain", "process_and_validate_instruction_chain"}

\* The last call returned a result to its caller.
ReturnedFrom(apis) == call.api \in apis /\ ~call.outcome.aborted

Result == call.outcome.result
Executions == call.outcome.executions
Limit == compute_budget.compute_unit_limit

KeySeq(accounts) == [i \in 1..Len(accounts) |-> accounts[i].key]

HasDuplicateKey(accounts) ==
    \E i, j \in 1..Len(accounts) : i < j /\ accounts[i].key = accounts[j].key

\* The engine left the transaction context of an execution different from
\* what it started from.
Wrote(execution) == execution.post_accounts # execution.transaction_accounts

\* C1: every result the facade returns (single instruction, chain,
\* transaction; success or failure) has as many resulting accounts as
\* accounts were passed in, with the same key at every position; the
\* synthesized program and instructions-sysvar accounts are not added.
C1_SameLengthAndKeyOrder ==
    ReturnedFrom(FacadeApis) =>
        /\ Len(Result.resulting_accounts) = Len(call.accounts)
        /\ KeySeq(Result.resulting_accounts) = KeySeq(call.accounts)

\* A successful transaction that wrote, called with a duplicated key, whose
\* transaction context held a synthesized program account.
C1_Witness ==
    /\ ReturnedFrom({"process_transaction_instructions"})
    /\ is_ok(Result.program_result)
    /\ Wrote(Executions[1])
    /\ HasDuplicateKey(call.accounts)
    /\ SYSTEM_PROGRAM \in KeysOf(Executions[1].transaction_accounts)
    /\ SYSTEM_PROGRAM \notin KeysOf(Result.resulting_accounts)

\* C2: a transaction is atomic: when an instruction fails, the resulting
\* accounts are the accounts passed in; when all succeed, every instruction
\* was dispatched and each resulting account of a key of the message is the
\* state the transaction context ended with.
C2_TransactionAtomic ==
    ReturnedFrom({"process_transaction_instructions"}) =>
        IF ~is_ok(Result.program_result)
        THEN Result.resulting_accounts = call.accounts
        ELSE /\ Len(Executions[1].dispatched) = Len(call.instructions)
             /\ \A i \in 1..Len(call.accounts) :
                    LET at == FindIndex(Executions[1].post_accounts,
                                        call.accounts[i].key)
                    IN Result.resulting_accounts[i].account =
                           IF at # 0 THEN Executions[1].post_accounts[at].account
                           ELSE call.accounts[i].account

\* A transaction whose instruction 1 failed after instruction 0 had written
\* to the shared transaction context.
C2_Witness ==
    /\ ReturnedFrom({"process_transaction_instructions"})
    /\ ~is_ok(Result.program_result)
    /\ Result.program_result.index = 1
    /\ Wrote(Executions[1])

\* C3: process_instruction returns the input accounts when the instruction
\* fails, and on success the state the transaction context holds for each
\* key.
C3_InstructionNoPartialWrites ==
    ReturnedFrom({"process_instruction"}) =>
        IF ~is_ok(Result.program_result)
        THEN Result.resulting_accounts = call.accounts
        ELSE \A i \in 1..Len(call.accounts) :
                LET at == FindIndex(Executions[1].post_accounts,
                                    call.accounts[i].key)
                IN Result.resulting_accounts[i].account =
                       IF at # 0 THEN Executions[1].post_accounts[at].account
                       ELSE call.accounts[i].account

\* A failing instruction that had already written to the transaction context.
C3_Witness ==
    /\ ReturnedFrom({"process_instruction"})
    /\ ~is_ok(Result.program_result)
    /\ Wrote(Executions[1])

\* A successful instruction that changed the accounts.
C3_WitnessSuccess ==
    /\ ReturnedFrom({"process_instruction"})
    /\ is_ok(Result.program_result)
    /\ Result.resulting_accounts # call.accounts

\* C4 as stated: a failing chain returns the accounts originally passed to
\* process_instruction_chain.
C4_FailingChainReturnsInput ==
    (ReturnedFrom({"process_instruction_chain"}) /\ ~is_ok(Result.program_result))
        => Result.resulting_accounts = call.accounts

\* C4, amended: a failing chain returns the accounts that were passed to
\* the failing element: the accounts originally passed in when element 0
\* fails, the resulting accounts of element k-1 when element k >= 1 fails.
C4_FailingChainReturnsElementInput ==
    (ReturnedFrom({"process_instruction_chain"}) /\ ~is_ok(Result.program_result))
        => LET n == Len(Executions)
           IN /\ Result.resulting_accounts = Executions[n].accounts
              /\ n = 1 => Result.resulting_accounts = call.accounts
              /\ n > 1 => Result.resulting_accounts =
                              Executions[n - 1].result.resulting_accounts

\* A chain that failed at element 1 after element 0 changed the accounts,
\* the failing element having itself written to its transaction context.
C4_Witness ==
    /\ ReturnedFrom({"process_instruction_chain"})
    /\ ~is_ok(Result.program_result)
    /\ Len(Executions) = 2
    /\ Result.resulting_accounts # call.accounts

C4_WitnessPartial ==
    /\ ReturnedFrom({"process_instruction_chain"})
    /\ ~is_ok(Result.program_result)
    /\ Wrote(Executions[Len(Executions)])

\* C5: in both chain entry points element 0 is compiled from the accounts
\* passed in and element k >= 1 from the resulting accounts of element k-1,
\* each in a transaction context of its own; after a fully successful chain
\* the composite resulting accounts are those of the last element.
C5_ChainThreadsAccounts ==
    ReturnedFrom(ChainApis) =>
        /\ \A k \in 1..Len(Executions) :
              /\ Executions[k].index = k - 1
              /\ Executions[k].accounts =
                     IF k = 1 THEN call.accounts
                     ELSE Executions[k - 1].result.resulting_accounts
              /\ Len(Executions[k].dispatched) = 1
              /\ Executions[k].dispatched[1].index = 0
              /\ \A j \in 1..Len(Executions[k].transaction_accounts) :
                     LET key == Executions[k].transaction_accounts[j].key
                         at == FindIndex(Executions[k].accounts, key)
                     IN at # 0 => Executions[k].transaction_accounts[j].account =
                                     Executions[k].accounts[at].account
        /\ (is_ok(Result.program_result) /\ Len(call.instructions) > 0) =>
              /\ Len(Executions) = Len(call.instructions)
              /\ Result.resulting_accounts =
                     Executions[Len(Executions)].result.resulting_accounts

\* A fully successful chain of two elements whose element 0 changed the
\* accounts element 1 then ran against.
C5_Witness ==
    /\ ReturnedFrom(ChainApis)
    /\ is_ok(Result.program_result)
    /\ Len(Executions) = 2
    /\ Executions[2].accounts # call.accounts
    /\ Result.resulting_accounts # Executions[2].accounts

\* C6: a chain halts on its first failing element: every executed element
\* but the last succeeded, a chain without failure executes all elements,
\* and the composite program_result and raw_result are those of the last
\* executed element.
C6_ChainHaltsOnFirstFailure ==
    (ReturnedFrom(ChainApis) /\ Len(call.instructions) > 0) =>
        LET n == Len(Executions)
        IN /\ n >= 1 /\ n <= Len(call.instructions)
           /\ \A k \in 1..(n - 1) : is_ok(Executions[k].result.program_result)
           /\ is_ok(Executions[n].result.program_result) => n = Len(call.instructions)
           /\ Result.program_result = Executions[n].result.program_result
           /\ Result.raw_result = Executions[n].result.raw_result

\* A chain of two instructions that stopped after its failing element 0.
C6_Witness ==
    /\ ReturnedFrom(ChainApis)
    /\ Len(call.instructions) = 2
    /\ Len(Executions) = 1
    /\ ~is_ok(Result.program_result)

\* The units the first n dispatched instructions took from the compute meter
RECURSIVE UnitsOf(_, _)
UnitsOf(dispatched, n) ==
    IF n = 0 THEN 0 ELSE UnitsOf(dispatched, n - 1) + dispatched[n].consumed

\* C7: a failing transaction reports the zero-based index k of its first
\* failing instruction with that instruction's error: instructions 0..k were
\* dispatched in order and no later one, the engine returned Ok for 0..k-1
\* and the reported error for k, and the compute units accumulated by the
\* k+1 dispatched instructions are in the result.
C7_TransactionFailureIndex ==
    (ReturnedFrom({"process_transaction_instructions"})
        /\ ~is_ok(Result.program_result)) =>
        LET k == Result.program_result.index
        IN /\ k < Len(call.instructions)
           /\ Len(Executions[1].dispatched) = k + 1
           /\ \A i \in 1..(k + 1) :
                  /\ Executions[1].dispatched[i].index = i - 1
                  /\ Executions[1].dispatched[i].result.ok = (i <= k)
           /\ Result.program_result.error = Executions[1].dispatched[k + 1].result.err
           /\ Result.raw_result = TxErr(k, Result.program_result.error)
           /\ Result.compute_units_consumed = UnitsOf(Executions[1].dispatched, k + 1)

\* What holds of a failing transaction: the index, the error and the
\* dispatch order are as C7 says, and the compute units in the result are
\* those of the failing instruction k alone.
C7_FailureIndexWithLastUnits ==
    (ReturnedFrom({"process_transaction_instructions"})
        /\ ~is_ok(Result.program_result)) =>
        LET k == Result.program_result.index
        IN /\ k < Len(call.instructions)
           /\ Len(Executions[1].dispatched) = k + 1
           /\ \A i \in 1..(k + 1) :
                  /\ Executions[1].dispatched[i].index = i - 1
                  /\ Executions[1].dispatched[i].result.ok = (i <= k)
           /\ Result.program_result.error = Executions[1].dispatched[k + 1].result.err
           /\ Result.raw_result = TxErr(k, Result.program_result.error)
           /\ Result.compute_units_consumed = Executions[1].dispatched[k + 1].consumed

\* A transaction of two instructions that failed at index 1, both having
\* consumed compute units.
C7_Witness ==
    /\ ReturnedFrom({"process_transaction_instructions"})
    /\ ~is_ok(Result.program_result)
    /\ Result.program_result.index = 1
    /\ Executions[1].dispatched[1].consumed > 0
    /\ Executions[1].dispatched[2].consumed > 0

\* C8 as stated: every result of every entry point has
\* compute_units_consumed <= compute_unit_limit.
C8_ComputeUnitsWithinLimit ==
    ReturnedFrom(FacadeApis) => Result.compute_units_consumed <= Limit

\* C8, amended: the results of process_instruction and of
\* process_transaction_instructions have compute_units_consumed <=
\* compute_unit_limit; a chain result has at most the limit per executed
\* element, compute_units_consumed <= executed elements * compute_unit_limit.
C8_ComputeUnitsWithinLimitPerContext ==
    /\ ReturnedFrom({"process_instruction", "process_transaction_instructions"})
          => Result.compute_units_consumed <= Limit
    /\ ReturnedFrom(ChainApis)
          => Result.compute_units_consumed <= Len(Executions) * Limit

\* A transaction whose second instruction ran out of the compute units the
\* first had left.
C8_Witness ==
    /\ ReturnedFrom({"process_transaction_instructions"})
    /\ Len(Executions[1].dispatched) = 2
    /\ Executions[1].dispatched[2].result = Err(COMPUTATIONAL_BUDGET_EXCEEDED)
    /\ Result.compute_units_consumed > 0
    /\ Result.compute_units_consumed < DEFAULT_COMPUTE_UNITS

\* A chain that consumed more than the limit in total.
C8_WitnessChain ==
    /\ ReturnedFrom(ChainApis)
    /\ Result.compute_units_consumed > Limit

CtxApis == {"ctx_process_instruction", "ctx_process_instruction_chain",
            "ctx_process_and_validate_instruction",
            "ctx_process_and_validate_instruction_chain"}

\* TRUE iff no execution after the n-th one had `key` in its transaction
KeyLastSeenIn(executions, n, key) ==
    \A m \in (n + 1)..Len(executions) :
        key \notin KeysOf(executions[m].post_accounts)

\* C9: after a MolluskContext call (single instruction or chain, validated or
\* not) whose program result is Success, the account store holds for every
\* pubkey of the result's resulting accounts exactly that pubkey's post-state
\* (the state the last execution that touched the key left in its transaction
\* context) and every other stored key is untouched; after a call that fails
\* or panics, also a chain that fails after earlier elements succeeded, the
\* account store is what it was before the call.
C9_StorePersistsOnlyOnSuccess ==
    call.api \in CtxApis =>
        IF ~call.outcome.aborted /\ is_ok(Result.program_result)
        THEN /\ DOMAIN account_store =
                    DOMAIN call.store_before \cup KeysOf(Result.resulting_accounts)
             /\ \A i \in 1..Len(Result.resulting_accounts) :
                    account_store[Result.resulting_accounts[i].key] =
                        Result.resulting_accounts[i].account
             /\ \A n \in 1..Len(Executions) :
                    \A j \in 1..Len(Executions[n].post_accounts) :
                        LET key == Executions[n].post_accounts[j].key
                        IN (/\ key \in KeysOf(Result.resulting_accounts)
                            /\ KeyLastSeenIn(Executions, n, key))
                           => account_store[key] =
                                  Executions[n].post_accounts[j].account
             /\ \A key \in DOMAIN call.store_before
                              \ KeysOf(Result.resulting_accounts) :
                    account_store[key] = call.store_before[key]
        ELSE account_store = call.store_before

\* A chain through the context whose first element succeeded and wrote and
\* whose second element failed, leaving the store as it was.
C9_Witness ==
    /\ call.api \in {"ctx_process_instruction_chain",
                     "ctx_process_and_validate_instruction_chain"}
    /\ Len(Executions) = 2
    /\ Wrote(Executions[1])
    /\ ~is_ok(Executions[2].result.program_result)
    /\ account_store = call.store_before

\* A successful call through the context that changed the store.
C9_WitnessSuccess ==
    /\ call.api \in CtxApis
    /\ ~call.outcome.aborted
    /\ is_ok(Result.program_result)
    /\ Len(Executions) >= 1
    /\ Wrote(Executions[Len(Executions)])
    /\ account_store # call.store_before

\* C10: across any sequence of MolluskContext calls, each call executes
\* against the account state persisted by the most recent successful earlier
\* call (or the initial store contents): for every account key the call's
\* instructions reference and the store holds, the account the call's first
\* execution starts from is the store's account.
C10_CallsRunAgainstPersistedState ==
    (call.api \in CtxApis /\ Len(Executions) >= 1) =>
        \A j \in 1..Len(Executions[1].transaction_accounts) :
            LET keyed == Executions[1].transaction_accounts[j]
            IN (/\ keyed.key \in DOMAIN call.store_before
                /\ \E i \in 1..Len(call.instructions) :
                       keyed.key \in MetaKeys(call.instructions[i]))
               => keyed.account = call.store_before[keyed.key]

\* The account MolluskContext is to execute against for a key: the store's
\* account, else the sysvar stub, else the program-cache stub, else the
\* store's default account.
HydratedAccount(store, key) ==
    IF key \in DOMAIN store THEN store[key]
    ELSE IF key \in SysvarKeys THEN maybe_create_sysvar_account(key)
    ELSE IF key \in CachedPrograms THEN maybe_create_program_account(key)
    ELSE DefaultAccount

\* The keys the account metas of the call's instructions name, without the
\* instructions sysvar (which the context never loads).
CallMetaKeys ==
    UNION {MetaKeys(call.instructions[i]) : i \in 1..Len(call.instructions)}
        \ {INSTRUCTIONS_SYSVAR}

\* C11: for every key referenced by the instructions of a MolluskContext
\* call, the account the first execution starts from is the store's account
\* when the store has one, and otherwise the sysvar stub, the program-cache
\* stub or the default account, with hydrate_store true and false.
C11_HydrationPrefersStore ==
    (call.api \in CtxApis /\ Len(Executions) >= 1) =>
        \A j \in 1..Len(Executions[1].transaction_accounts) :
            LET keyed == Executions[1].transaction_accounts[j]
            IN keyed.key \in CallMetaKeys
               => keyed.account = HydratedAccount(call.store_before, keyed.key)

\* C11, the part the code keeps: keys unknown to the store fall through to
\* the sysvar stub, the program-cache stub and the default account, and
\* without hydration the store's account is the one executed against.
C11_FallThroughAndUnhydratedStore ==
    (call.api \in CtxApis /\ Len(Executions) >= 1) =>
        \A j \in 1..Len(Executions[1].transaction_accounts) :
            LET keyed == Executions[1].transaction_accounts[j]
            IN (/\ keyed.key \in CallMetaKeys
                /\ (keyed.key \notin DOMAIN call.store_before \/ ~hydrate_store))
               => keyed.account = HydratedAccount(call.store_before, keyed.key)

\* A hydrated call on a sysvar key the store does not hold, and an
\* unhydrated call on a cached program key the store holds its own account of.
C11_WitnessFallThrough ==
    /\ call.api \in CtxApis /\ Len(Executions) >= 1
    /\ hydrate_store
    /\ CLOCK \in CallMetaKeys
    /\ CLOCK \notin DOMAIN call.store_before

C11_WitnessUnhydrated ==
    /\ call.api \in CtxApis /\ Len(Executions) >= 1
    /\ ~hydrate_store
    /\ SYSTEM_PROGRAM \in CallMetaKeys
    /\ call.store_before[SYSTEM_PROGRAM] # maybe_create_program_account(SYSTEM_PROGRAM)

\* The positions of the top-level entries of a trace, in trace order
TopLevelPositions(ix_trace) ==
    SelectSeq([i \in 1..Len(ix_trace) |-> i],
              LAMBDA i : ix_trace[i].nesting_level = 0)

\* The last trace position that belongs to the g-th top-level entry
LastPositionOf(ix_trace, g) ==
    IF g < Len(TopLevelPositions(ix_trace))
    THEN TopLevelPositions(ix_trace)[g + 1] - 1
    ELSE Len(ix_trace)

\* C12: the reconstruction opens one group per trace entry of nesting level
\* 0 and does not record that entry; every entry of nesting level n >= 1
\* is appended, in trace order, to the group of the last top-level entry
\* before it with stack_height = n + 1; so every recorded inner instruction
\* has stack_height >= 2.
C12_InnerInstructionsFromTrace ==
    call.api = "deconstruct_inner_instructions" =>
        LET tops == TopLevelPositions(call.ix_trace)
            groups == call.all_inner_instructions
        IN /\ Len(groups) = Len(tops)
           /\ \A g \in 1..Len(groups) :
                 /\ Len(groups[g]) = LastPositionOf(call.ix_trace, g) - tops[g]
                 /\ \A j \in 1..Len(groups[g]) :
                       /\ groups[g][j].instruction =
                              call.ix_trace[tops[g] + j].instruction
                       /\ groups[g][j].stack_height =
                              call.ix_trace[tops[g] + j].nesting_level + 1
                       /\ groups[g][j].stack_height >= 2

\* A trace of two top-level instructions, the first without inner
\* instructions and the second with inner instructions nested two deep.
C12_Witness ==
    /\ call.api = "deconstruct_inner_instructions"
    /\ Len(call.all_inner_instructions) = 2
    /\ call.all_inner_instructions[1] = <<>>
    /\ \E j \in 1..Len(call.all_inner_instructions[2]) :
          call.all_inner_instructions[2][j].stack_height = 3

\* The inner instructions the harness is to record for the trace entries
\* first + 1 .. last, in trace order
RecordedInner(ix_trace, first, last) ==
    [j \in 1..(last - first) |->
        [instruction |-> ix_trace[first + j].instruction,
         stack_height |-> ix_trace[first + j].nesting_level + 1]]

\* C13: the inner_instructions of a transaction result hold one group per
\* dispatched top-level instruction, in dispatch order; group i holds
\* exactly the instructions the engine traced below top-level instruction i
\* (its CPIs), in the order of the engine trace.
C13_TransactionInnerInstructionGroups ==
    (ReturnedFrom({"process_transaction_instructions"}) /\ Len(Executions) = 1) =>
        LET ix_trace == Executions[1].instruction_trace
            tops == TopLevelPositions(ix_trace)
        IN /\ Len(Result.inner_instructions) = Len(Executions[1].dispatched)
           /\ Len(tops) = Len(Executions[1].dispatched)
           /\ \A i \in 1..Len(Result.inner_instructions) :
                 /\ Executions[1].dispatched[i].index = i - 1
                 /\ ix_trace[tops[i]].instruction = call.instructions[i]
                 /\ Result.inner_instructions[i] =
                        RecordedInner(ix_trace, tops[i],
                                      LastPositionOf(ix_trace, i))

\* A transaction of two instructions, the first with two CPIs and the
\* second with one.
C13_Witness ==
    /\ ReturnedFrom({"process_transaction_instructions"})
    /\ Len(Result.inner_instructions) = 2
    /\ Len(Result.inner_instructions[1]) = 2
    /\ Len(Result.inner_instructions[2]) = 1
    /\ Result.inner_instructions[1][1] # Result.inner_instructions[1][2]

\* A transaction whose second instruction makes no CPI after a first that did.
C13_WitnessEmptyGroup ==
    /\ ReturnedFrom({"process_transaction_instructions"})
    /\ Len(Result.inner_instructions) = 2
    /\ Len(Result.inner_instructions[1]) >= 1
    /\ Result.inner_instructions[2] = <<>>

\* The inner-instruction group the engine trace of chain element n holds:
\* element n is a message of one instruction, so its trace has one group.
ElementGroup(execution) ==
    RecordedInner(execution.instruction_trace, 1, Len(execution.instruction_trace))

\* C14: the inner_instructions of a chain's composite result are the
\* inner-instruction group of the last executed element, whatever its
\* position k in the chain: the CPIs the last executed element made appear
\* in the composite result.
C14_ChainKeepsLastElementInner ==
    (ReturnedFrom(ChainApis) /\ Len(Executions) >= 1) =>
        Result.inner_instructions = ElementGroup(Executions[Len(Executions)])

\* What the code does: the group survives when the last executed element
\* is element 0, and the composite result has no inner instructions when it
\* is an element k >= 1.
C14_OnlyFirstElementKeepsInner ==
    (ReturnedFrom(ChainApis) /\ Len(Executions) >= 1) =>
        /\ Executions[Len(Executions)].index = Len(Executions) - 1
        /\ Len(Executions[Len(Executions)].all_inner_instructions) = 1
        /\ Executions[Len(Executions)].all_inner_instructions[1] =
               ElementGroup(Executions[Len(Executions)])
        /\ Result.inner_instructions =
               IF Len(Executions) = 1
               THEN ElementGroup(Executions[1]) ELSE <<>>

\* A chain whose only element made two CPIs, kept in the composite result.
C14_WitnessFirst ==
    /\ ReturnedFrom(ChainApis)
    /\ Len(Executions) = 1
    /\ Len(Result.inner_instructions) = 2

\* A chain whose second element made CPIs that the composite result lacks.
C14_WitnessLost ==
    /\ ReturnedFrom(ChainApis)
    /\ Len(Executions) = 2
    /\ is_ok(Result.program_result)
    /\ Len(ElementGroup(Executions[2])) >= 1
    /\ Result.inner_instructions = <<>>

\* The compute units the first n executed elements of a chain report
RECURSIVE ElementUnits(_, _)
ElementUnits(executions, n) ==
    IF n = 0 THEN 0
    ELSE ElementUnits(executions, n - 1) + executions[n].result.compute_units_consumed

\* The execution time the first n executed elements of a chain report
RECURSIVE ElementTime(_, _)
ElementTime(executions, n) ==
    IF n = 0 THEN 0
    ELSE ElementTime(executions, n - 1) + executions[n].result.execution_time

\* C15: after a chain in which elements 0..n were executed, the composite
\* result's compute_units_consumed and execution_time are the sums over the
\* executed elements, and its program_result, raw_result, return_data,
\* resulting_accounts, inner_instructions and message are those of the
\* result of element n: nothing but units and time accumulates.
C15_ChainAbsorption ==
    (ReturnedFrom(ChainApis) /\ Len(Executions) >= 1) =>
        LET last == Executions[Len(Executions)].result
        IN /\ Result.compute_units_consumed =
                  ElementUnits(Executions, Len(Executions))
           /\ Result.execution_time = ElementTime(Executions, Len(Executions))
           /\ Result.program_result = last.program_result
           /\ Result.raw_result = last.raw_result
           /\ Result.return_data = last.return_data
           /\ Result.resulting_accounts = last.resulting_accounts
           /\ Result.inner_instructions = last.inner_instructions
           /\ Result.message = last.message

\* A chain of two elements that both set return data and made CPIs, the
\* second with other return data than the first.
C15_Witness ==
    /\ ReturnedFrom(ChainApis)
    /\ Len(Executions) = 2
    /\ Executions[1].result.return_data # <<>>
    /\ Executions[1].result.inner_instructions # <<>>
    /\ Executions[2].result.return_data # <<>>
    /\ Executions[1].result.return_data # Executions[2].result.return_data
    /\ Executions[1].result.compute_units_consumed > 0
    /\ Executions[2].result.compute_units_consumed > 0
    /\ Result.return_data = Executions[2].result.return_data

\* The last step compiled accounts.
Compiled == call.api = "compile_accounts"

\* The keys of the compiled message, and those among them that nothing
\* resolves: not provided, not in the fallback map, neither a program id
\* nor the instructions sysvar.
MessageKeys == call.compiled.sanitized_message.account_keys

Provided(key) == \E j \in 1..Len(call.accounts) : call.accounts[j].key = key

Unresolvable(key) ==
    /\ ~Provided(key)
    /\ key \notin DOMAIN call.fallback_accounts
    /\ key \notin ProgramIds(call.instructions)
    /\ key # INSTRUCTIONS_SYSVAR

\* C16: every key of the compiled message resolves to the caller-provided
\* account for the key (the first one provided), else to the fallback-map
\* entry, else for a program id to an executable stub, else for the
\* instructions sysvar to the serialization of the instructions; when some
\* other key has neither a provided account nor a fallback the compilation
\* aborts with AccountMissing of the first such key of the message and no
\* transaction accounts are built.
C16_ResolutionPriority ==
    Compiled =>
        IF \E i \in 1..Len(MessageKeys) : Unresolvable(MessageKeys[i])
        THEN /\ call.compiled.aborted
             /\ call.compiled.transaction_accounts = <<>>
             /\ Unresolvable(call.compiled.missing)
             /\ \E i \in 1..Len(MessageKeys) :
                   /\ MessageKeys[i] = call.compiled.missing
                   /\ \A j \in 1..(i - 1) : ~Unresolvable(MessageKeys[j])
        ELSE /\ ~call.compiled.aborted
             /\ Len(call.compiled.transaction_accounts) = Len(MessageKeys)
             /\ \A i \in 1..Len(MessageKeys) :
                   LET key == MessageKeys[i]
                       account == call.compiled.transaction_accounts[i].account
                   IN /\ call.compiled.transaction_accounts[i].key = key
                      /\ IF Provided(key)
                         THEN \E j \in 1..Len(call.accounts) :
                                 /\ call.accounts[j].key = key
                                 /\ \A h \in 1..(j - 1) : call.accounts[h].key # key
                                 /\ account = call.accounts[j].account
                         ELSE IF key \in DOMAIN call.fallback_accounts
                         THEN account = call.fallback_accounts[key]
                         ELSE IF key \in ProgramIds(call.instructions)
                         THEN account = [DefaultAccount EXCEPT !.executable = TRUE]
                         ELSE account = keyed_account(call.instructions).account

\* A compilation in which one key resolves to a provided account although
\* the fallback map has the key too, one to the fallback map, one program id
\* to the stub and the instructions sysvar to the serialization.
C16_Witness ==
    /\ Compiled
    /\ ~call.compiled.aborted
    /\ \E i \in 1..Len(MessageKeys) :
          /\ Provided(MessageKeys[i])
          /\ MessageKeys[i] \in DOMAIN call.fallback_accounts
    /\ \E i \in 1..Len(MessageKeys) :
          /\ ~Provided(MessageKeys[i])
          /\ MessageKeys[i] \in DOMAIN call.fallback_accounts
    /\ \E i \in 1..Len(MessageKeys) :
          /\ MessageKeys[i] \in ProgramIds(call.instructions)
          /\ ~Provided(MessageKeys[i])
          /\ MessageKeys[i] \notin DOMAIN call.fallback_accounts
    /\ \E i \in 1..Len(MessageKeys) :
          /\ MessageKeys[i] = INSTRUCTIONS_SYSVAR
          /\ ~Provided(INSTRUCTIONS_SYSVAR)
          /\ INSTRUCTIONS_SYSVAR \notin DOMAIN call.fallback_accounts

\* A compilation that aborts on a key that is not the first of the message.
C16_WitnessMissing ==
    /\ Compiled
    /\ call.compiled.aborted
    /\ call.compiled.missing # MessageKeys[1]
    /\ call.compiled.missing \in {Alice, Bob}

\* Some occurrence of the key as an account of an instruction is a signer.
SignerSomewhere(key) ==
    \E i \in 1..Len(call.instructions) : \E j \in 1..Len(call.instructions[i].accounts) :
        /\ call.instructions[i].accounts[j].pubkey = key
        /\ call.instructions[i].accounts[j].is_signer

\* Some occurrence of the key as an account of an instruction is writable.
WritableSomewhere(key) ==
    \E i \in 1..Len(call.instructions) : \E j \in 1..Len(call.instructions[i].accounts) :
        /\ call.instructions[i].accounts[j].pubkey = key
        /\ call.instructions[i].accounts[j].is_writable

\* The number of transaction accounts with this key
EntriesOf(key) ==
    Cardinality({i \in 1..Len(call.compiled.transaction_accounts) :
                    call.compiled.transaction_accounts[i].key = key})

\* The transaction accounts hold every key of the instructions once, in the
\* key order of the message's account_keys.
DedupedInMessageOrder ==
    /\ \A key \in ReferencedKeys(call.instructions) : EntriesOf(key) = 1
    /\ Len(call.compiled.transaction_accounts) = Len(MessageKeys)
    /\ \A i \in 1..Len(MessageKeys) :
          call.compiled.transaction_accounts[i].key = MessageKeys[i]

\* C17: a pubkey that occurs several times in the instructions yields
\* exactly one transaction account, whose signer and writable privileges in
\* the sanitized message are the union over all its occurrences, and the
\* transaction accounts are in the key order of the message's account_keys.
C17_DedupWithPrivilegeUnion ==
    (Compiled /\ ~call.compiled.aborted) =>
        /\ DedupedInMessageOrder
        /\ \A i \in 1..Len(MessageKeys) :
              /\ is_signer(call.compiled.sanitized_message, i - 1)
                     = SignerSomewhere(MessageKeys[i])
              /\ is_writable(call.compiled.sanitized_message, i - 1)
                     = WritableSomewhere(MessageKeys[i])

\* C17 as the code has it: the signer privilege is the union over all
\* occurrences; the writable privilege is the union over all occurrences
\* unless the key is the program id of an instruction of the message, which
\* is read-only whatever its occurrences as an account say (the upgradeable
\* loader not being a key of the message).
C17_DedupWithDemotedProgramIds ==
    (Compiled /\ ~call.compiled.aborted) =>
        /\ DedupedInMessageOrder
        /\ \A i \in 1..Len(MessageKeys) : MessageKeys[i] # LOADER_V3
        /\ \A i \in 1..Len(MessageKeys) :
              /\ is_signer(call.compiled.sanitized_message, i - 1)
                     = SignerSomewhere(MessageKeys[i])
              /\ is_writable(call.compiled.sanitized_message, i - 1)
                     = (/\ WritableSomewhere(MessageKeys[i])
                        /\ MessageKeys[i] \notin ProgramIds(call.instructions))

\* A key that occurs as a read-only non-signer and as a read-only signer in
\* one instruction and as a writable signer in another: one writable signer.
C17_Witness ==
    /\ Compiled
    /\ ~call.compiled.aborted
    /\ call.instructions[1].accounts =
           <<Meta(Alice, FALSE, FALSE), Meta(Alice, TRUE, FALSE)>>
    /\ Len(call.instructions) = 2
    /\ call.instructions[2].accounts[1] = Meta(Alice, TRUE, TRUE)
    /\ EntriesOf(Alice) = 1
    /\ MessageKeys[1] = Alice
    /\ is_signer(call.compiled.sanitized_message, 0)
    /\ is_writable(call.compiled.sanitized_message, 0)

\* A program id that is also passed as a writable account: read-only.
C17_WitnessDemoted ==
    /\ Compiled
    /\ ~call.compiled.aborted
    /\ \E i \in 1..Len(MessageKeys) :
          /\ WritableSomewhere(MessageKeys[i])
          /\ MessageKeys[i] \in ProgramIds(call.instructions)
          /\ ~is_writable(call.compiled.sanitized_message, i - 1)

\* The loader key the program cache records for a program id: the native
\* loader for builtins, the default loader for added programs.
LoaderInCache(key) ==
    IF key \in {PRIMARY, IX_SYSVAR_PROGRAM} THEN LOADER_V3 ELSE NATIVE_LOADER

\* The account of a key among keyed accounts (the first one with the key)
AccountAt(accounts, key) == accounts[FindIndex(accounts, key)].account

\* The data is the serialization of the instructions, in order, with
\* current index `index`.
Serializes(data, instructions, index) ==
    /\ Len(data) = Len(instructions) + 1
    /\ data[Len(data)] = index
    /\ \A i \in 1..Len(instructions) :
          /\ data[i].program_id = instructions[i].program_id
          /\ data[i].data = instructions[i].data
          /\ Len(data[i].accounts) = Len(instructions[i].accounts)
          /\ \A j \in 1..Len(instructions[i].accounts) :
                /\ data[i].accounts[j].pubkey = instructions[i].accounts[j].pubkey
                /\ data[i].accounts[j].is_signer = instructions[i].accounts[j].is_signer
                /\ data[i].accounts[j].is_writable = instructions[i].accounts[j].is_writable

\* C18: a top-level program id the caller did not pass as an account
\* executes with the stub {0 lamports, empty data, executable, owner = the
\* loader key of the program in the cache, the native loader for a
\* precompile}; an instructions sysvar the caller did not pass is the
\* serialization of the instruction set; neither appears in
\* resulting_accounts.
C18_FallbackSynthesis ==
    ReturnedFrom(FacadeApis) =>
        /\ \A e \in 1..Len(Executions) :
              \A i \in 1..Len(Executions[e].transaction_accounts) :
                 LET key == Executions[e].transaction_accounts[i].key
                     account == Executions[e].transaction_accounts[i].account
                 IN /\ (key \in ProgramIds(call.instructions)
                           /\ key \notin KeysOf(call.accounts)) =>
                        /\ account.lamports = 0
                        /\ account.data = <<>>
                        /\ account.executable
                        /\ account.owner = IF key = ED25519_PROGRAM
                                           THEN NATIVE_LOADER
                                           ELSE LoaderInCache(key)
                    /\ (key = INSTRUCTIONS_SYSVAR
                           /\ key \notin KeysOf(call.accounts)) =>
                        /\ account.lamports = 0
                        /\ account.owner = SYSVAR_OWNER
                        /\ ~account.executable
                        /\ Serializes(account.data, call.instructions, 0)
        /\ KeySeq(Result.resulting_accounts) = KeySeq(call.accounts)

\* A transaction of an added program's instruction and a precompile's that
\* succeeds with both program accounts stubbed and the instructions sysvar
\* synthesized.
C18_Witness ==
    /\ ReturnedFrom({"process_transaction_instructions"})
    /\ is_ok(Result.program_result)
    /\ Len(Executions) = 1
    /\ KeysOf(call.accounts) = {Carol, Alice}
    /\ {IX_SYSVAR_PROGRAM, ED25519_PROGRAM, INSTRUCTIONS_SYSVAR}
           \subseteq KeysOf(Executions[1].transaction_accounts)
    /\ AccountAt(Executions[1].transaction_accounts, IX_SYSVAR_PROGRAM).owner = LOADER_V3
    /\ AccountAt(Executions[1].transaction_accounts, ED25519_PROGRAM).owner = NATIVE_LOADER

\* The caller passed an account for the instructions sysvar.
SysvarProvided == INSTRUCTIONS_SYSVAR \in KeysOf(call.accounts)

\* The account the caller passed for the instructions sysvar (the first one)
ProvidedSysvar == AccountAt(call.accounts, INSTRUCTIONS_SYSVAR)

\* The first execution ran with the caller's instructions sysvar account as
\* given, whatever its owner and data.
RunsWithProvidedSysvar ==
    (Len(Executions) >= 1
        /\ INSTRUCTIONS_SYSVAR \in KeysOf(Executions[1].transaction_accounts)) =>
        AccountAt(Executions[1].transaction_accounts, INSTRUCTIONS_SYSVAR)
            = ProvidedSysvar

\* C19: an account the caller supplies for the instructions sysvar is used
\* as given, neither validated nor replaced by the synthesized one, and is
\* returned in resulting_accounts with unchanged data.
C19_ProvidedSysvarUnchanged ==
    (ReturnedFrom(FacadeApis) /\ SysvarProvided) =>
        /\ RunsWithProvidedSysvar
        /\ INSTRUCTIONS_SYSVAR \in KeysOf(Result.resulting_accounts)
        /\ AccountAt(Result.resulting_accounts, INSTRUCTIONS_SYSVAR).data
               = ProvidedSysvar.data

\* The current index the instructions sysvar carries after the first n
\* executions: that of the last top-level instruction of the last execution
\* that had the account among its transaction accounts and was read back.
RECURSIVE StoredIndex(_, _, _)
StoredIndex(executions, n, supplied) ==
    IF n = 0 THEN supplied
    ELSE IF /\ executions[n].result.raw_result.ok
            /\ INSTRUCTIONS_SYSVAR \in KeysOf(executions[n].transaction_accounts)
            /\ Len(executions[n].dispatched) >= 1
    THEN executions[n].index + Len(executions[n].dispatched) - 1
    ELSE StoredIndex(executions, n - 1, supplied)

\* What the code does: the account is used as given, not validated and not
\* replaced, and returned with its lamports, owner and serialized
\* instructions unchanged; the current index at the end of its data is the
\* one the engine stored last, which is the supplied one only when no
\* instruction with another index ran against the account.
C19_ProvidedSysvarButForIndex ==
    (ReturnedFrom(FacadeApis) /\ SysvarProvided) =>
        /\ RunsWithProvidedSysvar
        /\ INSTRUCTIONS_SYSVAR \in KeysOf(Result.resulting_accounts)
        /\ LET returned == AccountAt(Result.resulting_accounts, INSTRUCTIONS_SYSVAR)
           IN /\ returned.lamports = ProvidedSysvar.lamports
              /\ returned.owner = ProvidedSysvar.owner
              /\ returned.executable = ProvidedSysvar.executable
              /\ Len(returned.data) = Len(ProvidedSysvar.data)
              /\ \A c \in 1..(Len(returned.data) - 1) :
                    returned.data[c] = ProvidedSysvar.data[c]
              /\ Len(returned.data) >= 1 =>
                    returned.data[Len(returned.data)] =
                        StoredIndex(Executions, Len(Executions),
                            ProvidedSysvar.data[Len(ProvidedSysvar.data)])

\* A single instruction that succeeds against a supplied sysvar whose
\* serialized flags differ from the instruction's: the supplied account was
\* used and is returned unchanged.
C19_WitnessUsedAsGiven ==
    /\ ReturnedFrom({"process_instruction"})
    /\ SysvarProvided
    /\ call.instructions = <<Flipped(FirstSysvarInstruction)>>
    /\ is_ok(Result.program_result)
    /\ AccountAt(Result.resulting_accounts, INSTRUCTIONS_SYSVAR) = ProvidedSysvar

\* A chain that succeeds against a supplied sysvar and returns it with
\* another current index than the supplied one.
C19_WitnessIndexStored ==
    /\ ReturnedFrom(ChainApis)
    /\ SysvarProvided
    /\ is_ok(Result.program_result)
    /\ Len(Executions) = 2
    /\ AccountAt(Result.resulting_accounts, INSTRUCTIONS_SYSVAR).data
           # ProvidedSysvar.data

\* A supplied Account::default() reaches the engine, which rejects it.
C19_WitnessArbitrary ==
    /\ ReturnedFrom({"process_instruction"})
    /\ SysvarProvided
    /\ ProvidedSysvar = DefaultAccount
    /\ Len(Executions) = 1
    /\ INSTRUCTIONS_SYSVAR \in KeysOf(Executions[1].transaction_accounts)
    /\ Result.raw_result = Err(INVALID_ACCOUNT_OWNER)

\* The elements of a chain that had the instructions sysvar among their
\* transaction accounts.
SysvarElements ==
    {e \in 1..Len(Executions) :
        INSTRUCTIONS_SYSVAR \in KeysOf(Executions[e].transaction_accounts)}

\* C20: in a chain whose caller passed no instructions sysvar account,
\* element k executes with current top-level instruction index k and with
\* an instructions sysvar that serializes all the instructions of the chain
\* in chain order: the account it starts from is that serialization, the
\* account the engine leaves carries index k, and an element of the test
\* program that succeeds wrote entry k with index k.
C20_ChainElementIndexAndSysvar ==
    (ReturnedFrom(ChainApis) /\ ~SysvarProvided) =>
        \A e \in 1..Len(Executions) :
            /\ Executions[e].index = e - 1
            /\ e \in SysvarElements =>
                /\ Serializes(
                       AccountAt(Executions[e].transaction_accounts,
                                 INSTRUCTIONS_SYSVAR).data,
                       call.instructions, 0)
                /\ Len(Executions[e].dispatched) >= 1 =>
                       Serializes(
                           AccountAt(Executions[e].post_accounts,
                                     INSTRUCTIONS_SYSVAR).data,
                           call.instructions, e - 1)
                /\ (/\ call.instructions[e].program_id = IX_SYSVAR_PROGRAM
                    /\ Executions[e].result.raw_result.ok) =>
                       LET output ==
                               AccountAt(Executions[e].post_accounts,
                                   call.instructions[e].accounts[1].pubkey).data
                       IN /\ Len(output) >= 3 * e
                          /\ output[3 * (e - 1) + 1] = 1
                          /\ output[3 * (e - 1) + 2] = e - 1
                          /\ output[3 * (e - 1) + 3] = 0

\* A chain of two different instructions of the test program, without a
\* supplied sysvar, whose second element succeeded with index 1 against the
\* serialization of both instructions.
C20_Witness ==
    /\ ReturnedFrom(ChainApis)
    /\ ~SysvarProvided
    /\ call.instructions = <<FirstSysvarInstruction, SecondSysvarInstruction>>
    /\ Len(Executions) = 2
    /\ Executions[2].result.raw_result.ok
    /\ 2 \in SysvarElements
    /\ Serializes(
           AccountAt(Executions[2].post_accounts, INSTRUCTIONS_SYSVAR).data,
           <<FirstSysvarInstruction, SecondSysvarInstruction>>, 1)
    /\ AccountAt(Executions[2].post_accounts, Carol).data[5] = 1

\* The entry of an id is the same in both program caches.
SameEntry(a, b, id) ==
    /\ a.cache[id] = b.cache[id]
    /\ a.entries_cache[id] = b.entries_cache[id]

\* The call inserted the entry and the record of its program id and left
\* every other id as it was.
InsertedOnly(entry, record) ==
    /\ call.program_cache.cache[call.program_id] = entry
    /\ call.program_cache.entries_cache[call.program_id] = record
    /\ DOMAIN call.program_cache.cache
           = DOMAIN call.before.cache \cup {call.program_id}
    /\ \A id \in DOMAIN call.before.cache \ {call.program_id} :
          SameEntry(call.program_cache, call.before, id)

\* C21: after any sequence of add_builtin and add_program calls the record
\* of entries and the engine cache hold the same program ids; every id has
\* one loader key, the native loader for a builtin and the given loader key
\* for an added program; an insertion replaces the recorded ELF bytes and
\* the loaded handle of its id by those of the insertion and changes no
\* other id's entry.
C21_ProgramCacheConsistency ==
    /\ DOMAIN call.program_cache.entries_cache = DOMAIN call.program_cache.cache
    /\ \A id \in DOMAIN call.program_cache.cache :
          LET entry == call.program_cache.cache[id]
              record == call.program_cache.entries_cache[id]
          IN /\ record.loader_key = account_owner(entry)
             /\ entry.program.kind = "Builtin" =>
                   record = [loader_key |-> NATIVE_LOADER, elf_bytes |-> None]
             /\ entry.program.kind = "Loaded" =>
                   /\ record.loader_key \in BpfLoaderKeys
                   /\ record.elf_bytes = Some(entry.program.elf)
    /\ call.aborted => call.program_cache = call.before
    /\ (call.api = "add_program" /\ ~call.aborted) =>
          InsertedOnly([account_owner |-> ProgramCacheEntryOwner(call.loader_key),
                        program |-> [kind |-> "Loaded", elf |-> call.elf]],
                       [loader_key |-> call.loader_key,
                        elf_bytes |-> Some(call.elf)])
    /\ call.api = "add_builtin" =>
          InsertedOnly([account_owner |-> ProgramCacheEntryOwner(NATIVE_LOADER),
                        program |-> [kind |-> "Builtin",
                                     entrypoint |-> "custom_builtin"]],
                       [loader_key |-> NATIVE_LOADER, elf_bytes |-> None])

\* An added program is inserted again with another loader key and another
\* ELF while a second added program is in the cache.
C21_Witness ==
    /\ call.api = "add_program"
    /\ ~call.aborted
    /\ call.program_id = PRIMARY
    /\ PRIMARY \in DOMAIN call.before.cache
    /\ IX_SYSVAR_PROGRAM \in DOMAIN call.before.cache
    /\ call.before.cache[PRIMARY].program.kind = "Loaded"
    /\ call.before.entries_cache[PRIMARY].loader_key # call.loader_key
    /\ call.before.entries_cache[PRIMARY].elf_bytes # Some(call.elf)
    /\ call.program_cache.entries_cache[PRIMARY].elf_bytes = Some(call.elf)

\* The program ids of the call that are neither precompiles, nor cached, nor
\* passed as accounts.
UncachedUnpassed ==
    {program_id \in ProgramIds(call.instructions) \ KeysOf(call.accounts) :
        ~is_precompile(program_id) /\ program_id \notin CachedPrograms}

\* C22: get_loader_key gives the native loader for a precompile id and the
\* owner of the cached entry for a cached program, and aborts the call with
\* ProgramNotCached(program_id) for any other id; a call with an instruction
\* whose program is neither cached nor passed as an account aborts and
\* yields no program result.
C22_LoaderKeyOrProgramNotCached ==
    /\ \A program_id \in {KeyOrder[i] : i \in 1..Len(KeyOrder)} :
          get_loader_key(program_id) =
              IF program_id = ED25519_PROGRAM
              THEN [panic |-> NoPanic, key |-> NATIVE_LOADER]
              ELSE IF program_id \in {PRIMARY, IX_SYSVAR_PROGRAM}
              THEN [panic |-> NoPanic, key |-> LOADER_V3]
              ELSE IF program_id = SYSTEM_PROGRAM
              THEN [panic |-> NoPanic, key |-> NATIVE_LOADER]
              ELSE [panic |-> [error |-> "ProgramNotCached",
                               program_id |-> program_id],
                    key |-> ""]
    /\ call.api \in FacadeApis =>
          /\ UncachedUnpassed # {} =>
                /\ call.outcome.aborted
                /\ call.outcome.executions = <<>>
                /\ call.outcome.panic.error = "ProgramNotCached"
                /\ call.outcome.panic.program_id \in UncachedUnpassed
          /\ call.outcome.panic.error = "ProgramNotCached" =>
                UncachedUnpassed # {}

\* A chain whose second instruction is of a program that is neither cached
\* nor passed as an account aborts before its first instruction executes.
C22_Witness ==
    /\ call.api = "process_instruction_chain"
    /\ call.instructions = <<Transfer(Alice, Bob, 1), UncachedInstruction>>
    /\ KeysOf(call.accounts) = {Alice, Bob}
    /\ call.outcome.aborted
    /\ call.outcome.executions = <<>>
    /\ call.outcome.panic = ProgramNotCached(UNCACHED_PROGRAM)

\* The same program passed as an account: the call returns a program result.
C22_WitnessPassed ==
    /\ call.api = "process_instruction"
    /\ call.instructions = <<UncachedInstruction>>
    /\ KeysOf(call.accounts) = {Alice, UNCACHED_PROGRAM}
    /\ ~call.outcome.aborted
    /\ Len(call.outcome.executions) = 1
    /\ call.outcome.result.raw_result = Err(UNSUPPORTED_PROGRAM_ID)

\* The instructions of the message execution e was compiled from: the one
\* element for a chain, all the instructions of the call otherwise.
MessageOf(e) ==
    IF call.api \in ChainApis
    THEN <<call.instructions[Executions[e].index + 1]>>
    ELSE call.instructions

\* The steps of the first d instructions in protocol order, then the reads
\* of the return data and of the instruction trace.
RECURSIVE ProtocolSteps(_, _)
ProtocolSteps(i, d) ==
    IF i >= d
    THEN <<Step("get_return_data", d), Step("deconstruct_inner_instructions", d)>>
    ELSE <<Step("prepare", i), Step("before_invocation", i), Step("invoke", i),
           Step("after_invocation", i)>> \o ProtocolSteps(i + 1, d)

\* C23: the top-level instructions of a message are dispatched in message
\* order up to the first failure; for each one the steps are prepare,
\* before_invocation, engine call, after_invocation, each once, also when
\* the engine call fails; the return data and the instruction trace are
\* read after the loop.
C23_ExecutorProtocol ==
    ReturnedFrom(FacadeApis) =>
        \A e \in 1..Len(Executions) :
            LET d == Len(Executions[e].dispatched)
                tops == TopLevelPositions(Executions[e].instruction_trace)
            IN /\ d <= Len(MessageOf(e))
               /\ \A i \in 1..d :
                     /\ Executions[e].dispatched[i].index = i - 1
                     /\ Executions[e].dispatched[i].result.ok
                            = (i < d \/ Executions[e].result.raw_result.ok)
               /\ d < Len(MessageOf(e)) => ~Executions[e].result.raw_result.ok
               /\ Len(tops) = d
               /\ \A i \in 1..d :
                     Executions[e].instruction_trace[tops[i]].instruction
                         = MessageOf(e)[i]
               /\ Executions[e].steps = ProtocolSteps(0, d)

\* A transaction of two instructions whose second one fails: both are
\* dispatched and after_invocation is notified for the failing one.
C23_Witness ==
    /\ ReturnedFrom({"process_transaction_instructions"})
    /\ Len(call.instructions) = 2
    /\ Len(Executions) = 1
    /\ Len(Executions[1].dispatched) = 2
    /\ Executions[1].dispatched[1].result.ok
    /\ ~Executions[1].dispatched[2].result.ok
    /\ Executions[1].steps[8] = Step("after_invocation", 1)
    /\ Len(Executions[1].steps) = 10

\* A transaction whose first instruction fails: the second is not prepared.
C23_WitnessStopped ==
    /\ ReturnedFrom({"process_transaction_instructions"})
    /\ Len(call.instructions) = 2
    /\ Len(Executions) = 1
    /\ Len(Executions[1].dispatched) = 1
    /\ Executions[1].steps =
           <<Step("prepare", 0), Step("before_invocation", 0),
             Step("invoke", 0), Step("after_invocation", 0),
             Step("get_return_data", 1),
             Step("deconstruct_inner_instructions", 1)>>

\* The InstructionError values of the model
InstructionErrors ==
    {RESULT_WITH_NEGATIVE_LAMPORTS, ACCOUNT_ALREADY_IN_USE,
     MISSING_REQUIRED_SIGNATURE, COMPUTATIONAL_BUDGET_EXCEEDED,
     READONLY_LAMPORT_CHANGE, INVALID_ACCOUNT_OWNER, UNSUPPORTED_PROGRAM_ID,
     ACCOUNT_DATA_TOO_SMALL, INVALID_ARGUMENT, INVALID_INSTRUCTION_DATA,
     PROGRAM_FAILED_TO_COMPLETE, PRECOMPILE_INVALID_SIGNATURE}

\* The errors ProgramError::try_from(InstructionError) has no ProgramError for
NotProgramErrors ==
    {COMPUTATIONAL_BUDGET_EXCEEDED, READONLY_LAMPORT_CHANGE,
     PROGRAM_FAILED_TO_COMPLETE}

\* The call cannot compile its accounts: a program is not cached or an
\* account is missing.
HarnessErrors ==
    FallbackPanics(call.instructions, call.accounts) # {}
        \/ MissingKeys(call.instructions, call.accounts,
                       get_account_fallbacks(call.instructions, call.accounts)) # {}

C24_WitnessFailure ==
    /\ ReturnedFrom({"process_instruction"})
    /\ Result.program_result = Failure(RESULT_WITH_NEGATIVE_LAMPORTS)
    /\ Result.raw_result = Err(RESULT_WITH_NEGATIVE_LAMPORTS)

\* The check holds of the result: the value matches; for an account check
\* the account is among the resulting accounts, every configured field
\* matches and the data slice lies inside the data and matches.
Passes(check, result) ==
    CASE check.type = "ComputeUnitsConsumed" ->
            check.units = result.compute_units_consumed
      [] check.type = "ExecutionTime" -> check.time = result.execution_time
      [] check.type = "ProgramResult" ->
            check.program_result = result.program_result
      [] check.type = "ReturnData" -> check.return_data = result.return_data
      [] check.type = "InnerInstructionCount" ->
            check.count = Len(result.inner_instructions)
      [] check.type = "AllRentExempt" ->
            \A i \in 1..Len(result.resulting_accounts) :
                LET account == result.resulting_accounts[i].account
                IN (account.owner = SYSTEM_PROGRAM /\ account.lamports = 0)
                      \/ account.lamports >= minimum_balance(Len(account.data))
      [] check.type = "ResultingAccount" ->
            /\ check.pubkey \in KeysOf(result.resulting_accounts)
            /\ LET account == AccountAt(result.resulting_accounts, check.pubkey)
               IN /\ check.check_data # None => check.check_data[1] = account.data
                  /\ check.check_executable # None =>
                        check.check_executable[1] = account.executable
                  /\ check.check_lamports # None =>
                        check.check_lamports[1] = account.lamports
                  /\ check.check_owner # None => check.check_owner[1] = account.owner
                  /\ check.check_space # None =>
                        check.check_space[1] = Len(account.data)
                  /\ check.check_state = Some("Closed") => account = DefaultAccount
                  /\ check.check_state = Some("RentExempt") =>
                        \/ account.owner = SYSTEM_PROGRAM /\ account.lamports = 0
                        \/ account.lamports >= minimum_balance(Len(account.data))
                  /\ check.check_data_slice # None =>
                        LET offset == check.check_data_slice[1].offset
                            data == check.check_data_slice[1].data
                        IN /\ offset + Len(data) <= Len(account.data)
                           /\ \A j \in 1..Len(data) :
                                 data[j] = account.data[offset + j]

AllPass == \A i \in 1..Len(call.checks) : Passes(call.checks[i], call.result)

\* C25: with panic = false run_checks never aborts and returns true exactly
\* when every check of the list passes (a mismatch, an account missing from
\* the resulting accounts and a data slice behind the account data each make
\* it return false); with panic = true a failing check aborts.
C25_RunChecksVerdict ==
    call.api = "run_checks" =>
        /\ ~call.c.panic =>
              /\ ~call.verdict.panicked
              /\ call.verdict.value = AllPass
        /\ call.c.panic =>
              /\ call.verdict.panicked = ~AllPass
              /\ AllPass => call.verdict.value

\* The list has a data slice check whose `offset + len` leaves the usize
\* range.
SliceOverflows ==
    \E i \in 1..Len(call.checks) :
        /\ call.checks[i].type = "ResultingAccount"
        /\ call.checks[i].check_data_slice # None
        /\ call.checks[i].check_data_slice[1].offset
               + Len(call.checks[i].check_data_slice[1].data) >= USIZE_RANGE

\* What the code does: the verdict is as stated for every list without a
\* data slice whose end leaves the usize range; with such a slice and
\* panic = false the call returns false or aborts, never true.
C25_VerdictButForSliceOverflow ==
    call.api = "run_checks" =>
        /\ ~SliceOverflows =>
              /\ ~call.c.panic =>
                    /\ ~call.verdict.panicked
                    /\ call.verdict.value = AllPass
              /\ call.c.panic =>
                    /\ call.verdict.panicked = ~AllPass
                    /\ AllPass => call.verdict.value
        /\ SliceOverflows =>
              /\ ~AllPass
              /\ ~call.verdict.value
              /\ call.c.panic => call.verdict.panicked

\* With panic = false a data slice at the end of the usize range aborts the
\* call although every earlier check passed.
C25_WitnessOverflowAborts ==
    /\ call.api = "run_checks"
    /\ ~call.c.panic
    /\ call.checks = <<CheckSuccess, DataSlice(Alice, USIZE_RANGE - 1, <<4>>)>>
    /\ Passes(CheckSuccess, call.result)
    /\ Alice \in KeysOf(call.result.resulting_accounts)
    /\ call.verdict.panicked

\* With panic = false a missing account and a slice behind the data return
\* false.
C25_WitnessFalse ==
    /\ call.api = "run_checks"
    /\ ~call.c.panic
    /\ call.checks = <<[AccountCheck(Carol) EXCEPT !.check_lamports = Some(0)],
                       DataSlice(Alice, 2, <<4>>)>>
    /\ Alice \in KeysOf(call.result.resulting_accounts)
    /\ call.verdict = [panicked |-> FALSE, value |-> FALSE]

\* C26: running a passing check list on a result returns true every time it
\* runs, the first and the second, and changes neither the result, nor the
\* checks, nor the configuration and context they run in.
C26_CheckIdempotence ==
    [][call'.api = "run_checks" =>
          /\ call'.result = call.result
          /\ call'.checks = call.checks
          /\ call'.c = call.c
          /\ call'.overflow_checks = call.overflow_checks
          /\ UNCHANGED <<compute_budget, config, account_store, hydrate_store>>
          /\ AllPass => call'.verdict = [panicked |-> FALSE, value |-> TRUE]
          /\ call.api = "run_checks" => call'.verdict = call.verdict]_vars

\* A list of an account check and a data slice check that passes ran twice.
C26_Witness ==
    /\ call.api = "run_checks"
    /\ call.seq = 2
    /\ call.checks = <<[AccountCheck(Alice) EXCEPT !.check_state = Some("RentExempt")],
                       DataSlice(Alice, 1, <<4>>)>>
    /\ AllPass
    /\ call.verdict = [panicked |-> FALSE, value |-> TRUE]

\* C27: comparing a result with itself returns true and never panics, for
\* every list of selectors (the presets among them) and every Config.
C27_CompareReflexive ==
    (call.api = "compare_with_config" /\ call.a = call.b) =>
        call.verdict = [panicked |-> FALSE, value |-> TRUE]

\* A result with an account was compared with itself under everything() and
\* a Config that panics on a mismatch.
C27_Witness ==
    /\ call.api = "compare_with_config"
    /\ call.a = call.b
    /\ call.a.resulting_accounts # <<>>
    /\ call.checks = everything
    /\ call.c.panic
    /\ call.verdict = [panicked |-> FALSE, value |-> TRUE]

\* The selectors that compare resulting accounts
AccountSelectors ==
    {"AllResultingAccounts", "OnlyResultingAccounts", "AllResultingAccountsExcept"}

DifferentLengths ==
    Len(call.a.resulting_accounts) # Len(call.b.resulting_accounts)

Passed == call.verdict = [panicked |-> FALSE, value |-> TRUE]

\* C28: a compare whose list holds an account selector, of whichever kind,
\* fails (returns false or panics) when the two results have different
\* numbers of resulting accounts.
C28_LengthEnforcedByEverySelector ==
    (/\ call.api = "compare_with_config"
     /\ DifferentLengths
     /\ \E i \in 1..Len(call.checks) : call.checks[i].type \in AccountSelectors)
        => ~Passed

\* What holds: the all-resulting-accounts selector fails on different
\* lengths, with every field toggle off too.
C28_LengthEnforcedByAllResultingAccounts ==
    (/\ call.api = "compare_with_config"
     /\ DifferentLengths
     /\ \E i \in 1..Len(call.checks) : call.checks[i].type = "AllResultingAccounts")
        => ~Passed

\* The left result has a second account that the right one lacks; the
\* selector lists exactly that account, and the compare passes.
C28_WitnessListedAccountNotCompared ==
    /\ call.api = "compare_with_config"
    /\ Len(call.a.resulting_accounts) = 2
    /\ Len(call.b.resulting_accounts) = 1
    /\ call.checks = <<only_resulting_accounts(<<Bob>>)>>
    /\ call.a.resulting_accounts[2].key = Bob
    /\ Passed

\* The same with the all-except selector that ignores no address.
C28_WitnessExceptNothing ==
    /\ call.api = "compare_with_config"
    /\ Len(call.a.resulting_accounts) = 1
    /\ Len(call.b.resulting_accounts) = 2
    /\ call.checks = <<all_resulting_accounts_except(<<>>)>>
    /\ Passed

\* The all-resulting-accounts selector returned false on different lengths.
C28_WitnessAllResultingAccounts ==
    /\ call.api = "compare_with_config"
    /\ DifferentLengths
    /\ call.checks = <<all_resulting_accounts>>
    /\ ~call.c.panic
    /\ call.verdict = [panicked |-> FALSE, value |-> FALSE]

\* The selector variants of enum Compare
SelectorTypes ==
    {"ComputeUnits", "ExecutionTime", "ProgramResult", "ReturnData"} \cup AccountSelectors

TypesOf(checks) == {checks[i].type : i \in 1..Len(checks)}

NotOfTypes(types, check) == check.type \notin types

Without(checks, types) == SelectSeq(checks, LAMBDA check : NotOfTypes(types, check))

\* The command line chose a preset and the compare ran.
PresetCompared == call.api = "compare_with_config" /\ call.config_file = None

C29_WitnessButCus ==
    /\ PresetCompared
    /\ call.ignore_compute_units
    /\ call.checks = everything_but_cus
    /\ call.a.execution_time # call.b.execution_time
    /\ Passed

\* The errors the round trip is stated for: the variants without a payload
\* and Custom
Representative(error, borsh_message) ==
    ~(error.name = "BorshIoError" /\ borsh_message)

\* C30: a result written to a Firedancer fixture has program_result 0 when it
\* is a success and otherwise the little-endian i32 of the first four
\* serialized bytes of its error plus one, which is never 0; reading the
\* effects back with the custom code of the error gives the error again, for
\* every variant without a payload and every Custom(c).
C30_ErrorCodeRoundTrip ==
    call.api \in {"build_fixture_effects", "parse_fixture_effects"} =>
        IF call.raw_result.ok
        THEN /\ call.effects = FuzzEffects(0, 0)
             /\ call.api = "parse_fixture_effects" =>
                    call.parsed = [panicked |-> FALSE, value |-> Ok]
        ELSE /\ call.effects.program_result =
                    i32_from_le_bytes(
                        SubSeq(serialize(call.raw_result.err, call.borsh_message),
                               1, 4)) + 1
             /\ call.effects.program_result = VariantIndex(call.raw_result.err.name) + 1
             /\ call.effects.program_result # 0
             /\ (/\ call.api = "parse_fixture_effects"
                 /\ Representative(call.raw_result.err, call.borsh_message))
                    => call.parsed = [panicked |-> FALSE, value |-> call.raw_result]

\* Custom(1000) was written as 26 with custom code 1000 and read back.
C30_Witness ==
    /\ call.api = "parse_fixture_effects"
    /\ call.raw_result = Err(Custom(1000))
    /\ call.effects = FuzzEffects(26, 1000)
    /\ call.parsed = [panicked |-> FALSE, value |-> Err(Custom(1000))]

\* A variant without a payload and a success were read back.
C30_WitnessUnit ==
    /\ call.api = "parse_fixture_effects"
    /\ call.raw_result = Err(UnitError("ModifiedProgramId"))
    /\ call.effects = FuzzEffects(12, 0)
    /\ call.parsed = [panicked |-> FALSE, value |-> call.raw_result]

C30_WitnessSuccess ==
    /\ call.api = "parse_fixture_effects"
    /\ call.raw_result = Ok
    /\ call.effects.program_result = 0
    /\ call.parsed = [panicked |-> FALSE, value |-> Ok]

\* Outside the statement: a BorshIoError that carries a message is written
\* as 45 and cannot be read back.
C30_WitnessMessageNotRead ==
    /\ call.api = "parse_fixture_effects"
    /\ call.raw_result = Err(UnitError("BorshIoError"))
    /\ call.effects = FuzzEffects(45, 0)
    /\ call.parsed.panicked

\* The effects were parsed against the context's accounts.
EffectsParsed == call.api \in {"parse_loaded", "parse_built"}

\* One resulting account per input account in input order: the first
\* modified account with the key if there is one, else the input account
ReconstructedAccounts ==
    /\ Len(call.parsed.value.resulting_accounts) = Len(call.context.accounts)
    /\ \A i \in 1..Len(call.context.accounts) :
          /\ call.parsed.value.resulting_accounts[i].key = call.context.accounts[i].key
          /\ IF \E j \in 1..Len(call.effects.modified_accounts) :
                    call.effects.modified_accounts[j].key = call.context.accounts[i].key
             THEN \E j \in 1..Len(call.effects.modified_accounts) :
                    /\ call.effects.modified_accounts[j].key = call.context.accounts[i].key
                    /\ \A h \in 1..(j - 1) :
                          call.effects.modified_accounts[h].key # call.context.accounts[i].key
                    /\ call.parsed.value.resulting_accounts[i].account =
                           call.effects.modified_accounts[j].account
             ELSE call.parsed.value.resulting_accounts[i].account =
                      call.context.accounts[i].account

\* modified_accounts holds exactly the context's accounts that the result
\* holds in another state, in the context's order.
OnlyModifiedListed ==
    /\ \A j \in 1..Len(call.effects.modified_accounts) :
          \E i \in 1..Len(call.context.accounts) :
             /\ call.context.accounts[i].key = call.effects.modified_accounts[j].key
             /\ call.context.accounts[i].account # call.effects.modified_accounts[j].account
             /\ \E h \in 1..Len(call.result.resulting_accounts) :
                   call.result.resulting_accounts[h] =
                       Keyed(call.effects.modified_accounts[j].key,
                             call.effects.modified_accounts[j].account)
    /\ \A i \in 1..Len(call.context.accounts) :
          (/\ FindIndex(call.result.resulting_accounts, call.context.accounts[i].key) # 0
           /\ call.result.resulting_accounts[
                  FindIndex(call.result.resulting_accounts,
                            call.context.accounts[i].key)].account
                  # call.context.accounts[i].account)
             => \E j \in 1..Len(call.effects.modified_accounts) :
                   call.effects.modified_accounts[j].key = call.context.accounts[i].key

\* C31 as stated: the units consumed are the limit minus the units the
\* effects report as available.
C31_EffectsReconstructionExactUnits ==
    /\ EffectsParsed =>
          /\ ReconstructedAccounts
          /\ call.parsed.value.compute_units_consumed =
                 call.context.compute_units_available
                     - call.effects.compute_units_available
    /\ call.api \in {"build_effects", "parse_built"} => OnlyModifiedListed

\* C31, amended: parse_fixture_effects returns one resulting account per
\* input account in input order, the first modified account with that key or
\* else the input account; the units consumed are the limit minus the units
\* available in the effects, and 0 when the effects report more units than
\* the limit; build_fixture_effects lists only accounts whose state in the
\* result differs from the context's.
C31_EffectsReconstruction ==
    /\ EffectsParsed =>
          /\ ReconstructedAccounts
          /\ call.parsed.value.compute_units_consumed =
                 IF call.effects.compute_units_available
                        <= call.context.compute_units_available
                 THEN call.context.compute_units_available
                          - call.effects.compute_units_available
                 ELSE 0
    /\ call.api \in {"build_effects", "parse_built"} => OnlyModifiedListed

\* Effects that name the second of two input accounts were parsed: the first
\* account is copied forward, the second comes from the effects, and the
\* units consumed are the difference.
C31_Witness ==
    /\ call.api = "parse_loaded"
    /\ Len(call.context.accounts) = 2
    /\ call.context.accounts[1].key = Alice
    /\ call.context.accounts[2].key = Bob
    /\ Len(call.effects.modified_accounts) = 1
    /\ call.effects.modified_accounts[1].key = Bob
    /\ call.effects.modified_accounts[1].account # call.context.accounts[2].account
    /\ call.effects.compute_units_available = 0
    /\ call.parsed.value.compute_units_consumed = DEFAULT_COMPUTE_UNITS
    /\ call.parsed.value.resulting_accounts =
           <<Keyed(Alice, call.context.accounts[1].account),
             Keyed(Bob, call.effects.modified_accounts[1].account)>>

\* The effects report more units than the context: 0 units consumed.
C31_WitnessSaturated ==
    /\ EffectsParsed
    /\ call.effects.compute_units_available > call.context.compute_units_available
    /\ call.parsed.value.compute_units_consumed = 0

\* Effects were built from a result that changed one of two accounts.
C31_WitnessBuilt ==
    /\ call.api = "parse_built"
    /\ Len(call.context.accounts) = 2
    /\ Len(call.effects.modified_accounts) = 1
    /\ call.parsed.value.resulting_accounts = call.result.resulting_accounts
    /\ call.parsed.value.resulting_accounts # ParsedAccounts(call.context)

\* The context of a test was built and parsed back.
ContextParsed == call.api = "parse_fixture_context"

\* What the round trip keeps: accounts, instruction, compute budget, feature
\* set and six of the sysvars
RoundTripButLastRestartSlot ==
    /\ call.parsed.accounts = call.accounts
    /\ call.parsed.instruction.program_id = call.instruction.program_id
    /\ call.parsed.instruction.data = call.instruction.data
    /\ call.parsed.instruction.accounts = call.instruction.accounts
    /\ call.parsed.compute_budget = call.compute_budget
    /\ call.parsed.feature_set = call.feature_set
    /\ call.parsed.sysvars.clock = call.sysvars.clock
    /\ call.parsed.sysvars.epoch_rewards = call.sysvars.epoch_rewards
    /\ call.parsed.sysvars.epoch_schedule = call.sysvars.epoch_schedule
    /\ call.parsed.sysvars.rent = call.sysvars.rent
    /\ call.parsed.sysvars.slot_hashes = call.sysvars.slot_hashes
    /\ call.parsed.sysvars.stake_history = call.sysvars.stake_history

\* C32: a fixture context built from accounts, instruction, compute budget,
\* feature set and sysvars parses back to the same accounts in the same
\* order, the same instruction, budget and feature set, and the same value
\* of all seven sysvars.
C32_ContextRoundTrip ==
    ContextParsed =>
        /\ RoundTripButLastRestartSlot
        /\ call.parsed.sysvars.last_restart_slot = call.sysvars.last_restart_slot

\* What holds: everything but the last restart slot comes back, and the last
\* restart slot comes back as the default.
C32_ContextRoundTripButLastRestartSlot ==
    ContextParsed =>
        /\ RoundTripButLastRestartSlot
        /\ call.parsed.sysvars.last_restart_slot = DefaultLastRestartSlot

\* A harness whose last restart slot is 3 wrote a context with two accounts
\* and slot hashes; the parsed block has last restart slot 0.
C32_WitnessLastRestartSlotLost ==
    /\ ContextParsed
    /\ call.sysvars.last_restart_slot = [last_restart_slot |-> 3]
    /\ call.parsed.sysvars.last_restart_slot = [last_restart_slot |-> 0]
    /\ Len(call.accounts) = 2
    /\ Len(call.sysvars.slot_hashes) = 2
    /\ RoundTripButLastRestartSlot

\* A message was decoded to a context.
ContextDecoded == call.api = "context_from" /\ ~call.context.panicked

\* The features the message lists
ListedFeatures ==
    IF call.proto.feature_set = None THEN {}
    ELSE {feature \in KnownFeatures :
             \E i \in 1..Len(call.proto.feature_set[1].features) :
                call.proto.feature_set[1].features[i] = FeaturePrefix(feature)}

\* C33: a message without a feature set decodes to the empty feature set; a
\* message without a compute budget decodes to the default budget, whose
\* stack depth and CPI account-info limit follow whether
\* raise_cpi_nesting_limit_to_8 and increase_cpi_account_info_limit are
\* active in the decoded feature set; a compute budget that is present is
\* passed through whatever the features.
C33_ContextDefaults ==
    ContextDecoded =>
        /\ call.proto.feature_set = None => call.context.value.feature_set = {}
        /\ call.context.value.feature_set = ListedFeatures
        /\ call.proto.compute_budget = None =>
              /\ call.context.value.compute_budget.compute_unit_limit =
                     MAX_COMPUTE_UNIT_LIMIT
              /\ call.context.value.compute_budget.max_instruction_stack_depth =
                     (IF RAISE_CPI_NESTING_LIMIT_TO_8 \in call.context.value.feature_set
                      THEN 9 ELSE 5)
              /\ call.context.value.compute_budget.max_cpi_account_infos =
                     (IF INCREASE_CPI_ACCOUNT_INFO_LIMIT \in call.context.value.feature_set
                      THEN 255 ELSE 128)
        /\ call.proto.compute_budget # None =>
              call.context.value.compute_budget = call.proto.compute_budget[1]

\* test_defaults_use_feature_flag_when_active: no budget, both features
C33_Witness ==
    /\ ContextDecoded
    /\ call.proto.compute_budget = None
    /\ call.context.value.feature_set = KnownFeatures
    /\ call.context.value.compute_budget = new_with_defaults(TRUE, TRUE)
    /\ new_with_defaults(TRUE, TRUE) # new_with_defaults(FALSE, FALSE)

\* test_defaults_use_feature_flag_when_inactive: neither budget nor features
C33_WitnessInactive ==
    /\ ContextDecoded
    /\ call.proto.compute_budget = None
    /\ call.proto.feature_set = None
    /\ call.context.value.feature_set = {}
    /\ call.context.value.compute_budget = new_with_defaults(FALSE, FALSE)

\* test_present_compute_budget_is_passthrough: a budget of the inactive
\* limits beside both features
C33_WitnessPassthrough ==
    /\ ContextDecoded
    /\ call.proto.compute_budget = Some(FixtureBudget(12345, FALSE, FALSE))
    /\ call.context.value.feature_set = KnownFeatures
    /\ call.context.value.compute_budget = FixtureBudget(12345, FALSE, FALSE)

\* C34: processing a fixture replaces the harness's compute budget and
\* feature set (and the sysvars for a fixture of the harness's own format,
\* the slot for a Firedancer fixture) with the fixture's values and leaves
\* the program cache as it was, whatever was provisioned or processed before.
FixtureProcessed ==
    \/ call.api = "process_fixture"
    \/ /\ call.api = "process_firedancer_fixture"
       /\ ~firedancer_parse_fixture_context(call.fixture.input).panicked

C34_FixtureReplacesHarnessFields ==
    /\ call.api = "process_fixture" =>
          /\ compute_budget = call.fixture.input.compute_budget
          /\ call.feature_set = call.fixture.input.feature_set
          /\ call.sysvars = SysvarsFrom(call.fixture.input.sysvars)
          /\ call.slot = call.before.slot
    /\ FixtureProcessed /\ call.api = "process_firedancer_fixture" =>
          /\ compute_budget.compute_unit_limit =
                 call.fixture.input.compute_units_available
          /\ call.feature_set = call.fixture.input.epoch_context.feature_set
          /\ call.slot = call.fixture.input.slot_context.slot
          /\ call.sysvars = call.before.sysvars
    /\ call.api \in {"process_fixture", "process_firedancer_fixture"} =>
          call.program_cache = call.before.program_cache

\* A fixture processed on a provisioned cache, after which budget, feature
\* set and sysvars all differ from what the harness held
C34_Witness ==
    /\ call.api = "process_fixture"
    /\ call.program_cache # ProgramCacheNew
    /\ compute_budget # call.before.compute_budget
    /\ call.feature_set # call.before.feature_set
    /\ call.sysvars # call.before.sysvars
    /\ ~call.outcome.aborted
    /\ is_ok(call.outcome.result.program_result)

\* A Firedancer fixture processed after another fixture changed the harness
C34_WitnessFiredancerAfterFixture ==
    /\ call.api = "process_firedancer_fixture"
    /\ call.seq = 2
    /\ FixtureProcessed
    /\ call.before.compute_budget # FixtureBudget(2 * DEFAULT_COMPUTE_UNITS, TRUE, TRUE)
    /\ compute_budget # call.before.compute_budget
    /\ call.slot # call.before.slot
    /\ call.feature_set # call.before.feature_set

\* A fixture whose program is not cached: the harness fields are replaced
\* before the call panics
C34_WitnessPanicAfterReplacing ==
    /\ call.api = "process_fixture"
    /\ call.outcome.aborted
    /\ call.sysvars # call.before.sysvars

\* C35: after any sequence of inserts into the epoch-stake map, the total
\* stake reported to the engine is the sum of all values of the map, the
\* stake reported for a vote address is its current value in the map, and a
\* vote address that is not in the map reports 0.
StakeOfVoteAddress ==
    call.api = "get_epoch_stake_for_vote_account" =>
        /\ ~call.reported.panicked
        /\ call.vote_address \in DOMAIN call.epoch_stake =>
              call.reported.value = call.epoch_stake[call.vote_address]
        /\ call.vote_address \notin DOMAIN call.epoch_stake =>
              call.reported.value = 0

C35_EpochStakeReported ==
    /\ call.api = "get_epoch_stake" =>
          /\ ~call.reported.panicked
          /\ call.reported.value =
                 ValuesSum(call.epoch_stake, DOMAIN call.epoch_stake)
    /\ StakeOfVoteAddress

\* What holds of C35: the total is the sum whenever the sum is a u64
C35_EpochStakeReportedWithinU64 ==
    /\ /\ call.api = "get_epoch_stake"
       /\ ValuesSum(call.epoch_stake, DOMAIN call.epoch_stake) < U64_RANGE
       => /\ ~call.reported.panicked
          /\ call.reported.value =
                 ValuesSum(call.epoch_stake, DOMAIN call.epoch_stake)
    /\ StakeOfVoteAddress

\* Three inserts as in test_epoch_stake, the total asked for afterwards
C35_WitnessTotal ==
    /\ call.api = "get_epoch_stake"
    /\ Cardinality(DOMAIN call.epoch_stake) = 3
    /\ ~call.reported.panicked
    /\ call.reported.value = 1000 + 1000 + 1

\* A build without overflow checks reports a total below one of the stakes
C35_WitnessWrappedTotal ==
    /\ call.api = "get_epoch_stake"
    /\ ~call.reported.panicked
    /\ \E k \in DOMAIN call.epoch_stake : call.reported.value < call.epoch_stake[k]

\* A build with overflow checks panics in the callback
C35_WitnessPanic ==
    /\ call.api = "get_epoch_stake"
    /\ call.reported.panicked

\* An address whose stake was inserted twice reports the later value
C35_WitnessOverwritten ==
    /\ call.api = "get_epoch_stake_for_vote_account"
    /\ call.seq = 2
    /\ Cardinality(DOMAIN call.epoch_stake) = 1
    /\ call.vote_address \in DOMAIN call.epoch_stake
    /\ call.reported.value = 1000

\* C36: the stakes of the map create_mock_epoch_stake(t) returns sum to t;
\* the map is empty for t = 0, has one entry for 0 < t < 2 * BASE, and
\* otherwise floor(t / BASE) entries, all but one holding exactly BASE and
\* one holding BASE plus the remainder.
MockCreated == call.api = "create_mock_epoch_stake"

C36_MockEpochStake ==
    MockCreated =>
        /\ ValuesSum(call.epoch_stake, DOMAIN call.epoch_stake) = call.target_total
        /\ call.target_total = 0 => DOMAIN call.epoch_stake = {}
        /\ /\ 0 < call.target_total
           /\ call.target_total < 2 * BASE_STAKE_PER_ACCOUNT
           => Cardinality(DOMAIN call.epoch_stake) = 1
        /\ call.target_total >= 2 * BASE_STAKE_PER_ACCOUNT =>
              /\ Cardinality(DOMAIN call.epoch_stake) =
                     call.target_total \div BASE_STAKE_PER_ACCOUNT
              /\ \E k \in DOMAIN call.epoch_stake :
                    /\ call.epoch_stake[k] =
                           BASE_STAKE_PER_ACCOUNT
                           + (call.target_total % BASE_STAKE_PER_ACCOUNT)
                    /\ \A j \in DOMAIN call.epoch_stake \ {k} :
                           call.epoch_stake[j] = BASE_STAKE_PER_ACCOUNT

\* 1234.567890123 SOL of test_num_accounts_greater_than_two, scaled: twelve
\* accounts, eleven of the base stake and one with the remainder on top
C36_Witness ==
    /\ MockCreated
    /\ call.target_total = 12 * BASE_STAKE_PER_ACCOUNT + 34
    /\ Cardinality(DOMAIN call.epoch_stake) = 12
    /\ Cardinality({k \in DOMAIN call.epoch_stake :
                       call.epoch_stake[k] = BASE_STAKE_PER_ACCOUNT}) = 11

\* Totals of one account: below the base stake and between one and two
C36_WitnessOneAccount ==
    /\ MockCreated
    /\ call.target_total = BASE_STAKE_PER_ACCOUNT + 50
    /\ Cardinality(DOMAIN call.epoch_stake) = 1

C36_WitnessZero ==
    /\ MockCreated
    /\ call.target_total = 0
    /\ call.epoch_stake = EmptyEpochStake

\* The last total of the u64 range
C36_WitnessLargest ==
    /\ MockCreated
    /\ call.target_total = U64_RANGE - 1
    /\ Cardinality(DOMAIN call.epoch_stake) = (U64_RANGE - 1) \div BASE_STAKE_PER_ACCOUNT

\* C37: run_all runs every fixture in order (a failing fixture does not stop
\* the run), prints PASS or FAIL once per fixture, reports a failure count
\* equal to the number of fixtures whose comparisons did not all pass, and
\* the process exits with code 1 exactly when that count is greater than
\* zero.
ComparisonsPass(self, fixture) ==
    /\ (self.ground /\ ~self.inputs_only) => fixture.ground_matches_effects
    /\ ~self.inputs_only => fixture.target_matches_effects
    /\ self.ground => fixture.ground_matches_target

FailedFixtures ==
    {i \in 1..Len(call.fixtures) : ~ComparisonsPass(call.self, call.fixtures[i])}

PanickingFixtures ==
    {i \in 1..Len(call.fixtures) :
        \/ call.self.ground /\ call.fixtures[i].ground_panics
        \/ call.fixtures[i].target_panics}

\* The first `n` fixtures were run in order and one line was printed for each
PrintedInOrder(n) ==
    /\ Len(call.printed) = n
    /\ \A i \in 1..n :
          /\ call.printed[i].fixture_path = i
          /\ call.printed[i].line =
                 IF ComparisonsPass(call.self, call.fixtures[i])
                 THEN "PASS" ELSE "FAIL"

ProcessEnded == call.exit_code # None

RunAllCompleted ==
    /\ PrintedInOrder(Len(call.fixtures))
    /\ call.reported = Some(Cardinality(FailedFixtures))
    /\ call.exit_code = Some(1) <=> Cardinality(FailedFixtures) > 0
    /\ call.exit_code = Some(0) <=> Cardinality(FailedFixtures) = 0

C37_WitnessExitZero ==
    /\ call.exit_code = Some(0)
    /\ Len(call.printed) = 3
    /\ call.reported = Some(0)

\* A fixture that panics after a failing one: the process ends before the
\* last fixture, with neither a count nor the exit code 1
C37_WitnessPanic ==
    /\ call.api = "panicked"
    /\ Len(call.fixtures) = 3
    /\ Len(call.printed) = 1
    /\ call.failures = 1
    /\ call.exit_code = Some(PANIC_EXIT_CODE)

\* C38: an account passed to process_instruction, process_instruction_chain
\* or process_transaction_instructions whose key no instruction references,
\* neither as an instruction account nor as a program id, is returned in
\* resulting_accounts unchanged, on success as well as on failure.
UnreferencedAt(i) == call.accounts[i].key \notin ReferencedKeys(call.instructions)

C38_UnreferencedAccountUnchanged ==
    ReturnedFrom({"process_instruction", "process_instruction_chain",
                  "process_transaction_instructions"}) =>
        \A i \in 1..Len(call.accounts) :
            UnreferencedAt(i) =>
                /\ i <= Len(Result.resulting_accounts)
                /\ Result.resulting_accounts[i] = call.accounts[i]

\* A successful chain of two instructions that changed its accounts and
\* returned an unreferenced one as it was
C38_Witness ==
    /\ ReturnedFrom({"process_instruction_chain"})
    /\ is_ok(Result.program_result)
    /\ Result.resulting_accounts # call.accounts
    /\ Len(call.instructions) = 2
    /\ \E i \in 1..Len(call.accounts) : UnreferencedAt(i)

\* A transaction that failed after it had written, with an unreferenced
\* account among its accounts
C38_WitnessFailure ==
    /\ ReturnedFrom({"process_transaction_instructions"})
    /\ ~is_ok(Result.program_result)
    /\ Wrote(Executions[1])
    /\ \E i \in 1..Len(call.accounts) : UnreferencedAt(i)

\* A successful single instruction beside an unreferenced account
C38_WitnessInstruction ==
    /\ ReturnedFrom({"process_instruction"})
    /\ is_ok(Result.program_result)
    /\ \E i \in 1..Len(call.accounts) : UnreferencedAt(i)

\* C39: when the accounts passed in hold the same key more than once, the
\* first occurrence supplies the pre-execution state, and on success every
\* occurrence of the key in resulting_accounts carries the same
\* post-execution state; the input values of later occurrences are
\* discarded.
FirstOccurrenceIsPreState(keys) ==
    \A e \in 1..Len(Executions) :
        \A t \in 1..Len(Executions[e].transaction_accounts) :
            LET key == Executions[e].transaction_accounts[t].key
            IN (e = 1 /\ key \in keys /\ key \in KeysOf(call.accounts)) =>
                   Executions[e].transaction_accounts[t].account =
                       call.accounts[FindIndex(call.accounts, key)].account

OccurrencesAgree(keys) ==
    \A i, j \in 1..Len(call.accounts) :
        (call.accounts[i].key = call.accounts[j].key
         /\ call.accounts[i].key \in keys) =>
            Result.resulting_accounts[i] = Result.resulting_accounts[j]

C39_DuplicateKeys ==
    (ReturnedFrom(FacadeApis) /\ is_ok(Result.program_result)) =>
        /\ FirstOccurrenceIsPreState(KeysOf(call.accounts))
        /\ OccurrencesAgree(KeysOf(call.accounts))

\* C39 as it holds: for the keys an instruction of the call references. An
\* unreferenced key is not in the transaction context, and each of its
\* occurrences is returned with its own input value.
C39_DuplicateReferencedKeys ==
    (ReturnedFrom(FacadeApis) /\ is_ok(Result.program_result)) =>
        /\ FirstOccurrenceIsPreState(ReferencedKeys(call.instructions))
        /\ OccurrencesAgree(ReferencedKeys(call.instructions))

\* A successful call that references a key passed twice with different
\* values: both occurrences come back with the state computed from the first
C39_Witness ==
    /\ ReturnedFrom(FacadeApis)
    /\ is_ok(Result.program_result)
    /\ Len(call.instructions) >= 1
    /\ \E i, j \in 1..Len(call.accounts) :
          /\ i < j
          /\ call.accounts[i].key = call.accounts[j].key
          /\ call.accounts[i].key \in ReferencedKeys(call.instructions)
          /\ call.accounts[i] # call.accounts[j]
          /\ Result.resulting_accounts[i] = Result.resulting_accounts[j]
          /\ Result.resulting_accounts[j] # call.accounts[j]

\* A successful call with an unreferenced key passed twice with different
\* values: each occurrence keeps its own
C39_WitnessUnreferenced ==
    /\ ReturnedFrom(FacadeApis)
    /\ is_ok(Result.program_result)
    /\ Len(call.instructions) >= 1
    /\ Result.resulting_accounts # call.accounts
    /\ \E i, j \in 1..Len(call.accounts) :
          /\ i < j
          /\ call.accounts[i].key = call.accounts[j].key
          /\ call.accounts[i].key \notin ReferencedKeys(call.instructions)
          /\ Result.resulting_accounts[i] # Result.resulting_accounts[j]
          /\ Result.resulting_accounts[j] = call.accounts[j]

\* C40: account comparison is positional: the fields of a's i-th account are
\* compared with those of b's i-th account for every i below both lengths,
\* the address filters are evaluated on a's key, and b's keys are never
\* examined, so results with equal account states under different keys at
\* the same positions compare as equal.
Rekeyed(result, key) ==
    [result EXCEPT !.resulting_accounts =
        [i \in 1..Len(result.resulting_accounts) |->
            Keyed(key, result.resulting_accounts[i].account)]]

SameStatesAtPositions ==
    /\ Len(call.a.resulting_accounts) = Len(call.b.resulting_accounts)
    /\ \A i \in 1..Len(call.a.resulting_accounts) :
          call.a.resulting_accounts[i].account = call.b.resulting_accounts[i].account

\* The pairs a list of account selectors compares: position i when a's key
\* passes the filter of some selector of the list
ComparedPositions ==
    {i \in 1..ZipLen(call.a.resulting_accounts, call.b.resulting_accounts) :
        \E k \in 1..Len(call.checks) :
            \/ call.checks[k].type = "AllResultingAccounts"
            \/ /\ call.checks[k].type = "OnlyResultingAccounts"
               /\ contains(call.checks[k].addresses, call.a.resulting_accounts[i].key)
            \/ /\ call.checks[k].type = "AllResultingAccountsExcept"
               /\ ~contains(call.checks[k].ignore_addresses,
                            call.a.resulting_accounts[i].key)}

C40_PositionalOnKeysOfA ==
    call.api = "compare_with_config" =>
        /\ \A key \in {Alice, Bob, Carol} :
              call.verdict =
                  compare_with_config(call.a, Rekeyed(call.b, key), call.checks, call.c)
        /\ SameStatesAtPositions => Passed
        /\ (\E i \in ComparedPositions :
               /\ call.a.resulting_accounts[i].account.lamports
                      # call.b.resulting_accounts[i].account.lamports
               /\ \A k \in 1..Len(call.checks) :
                      call.checks[k].type \in AccountSelectors =>
                          call.checks[k].fields.lamports)
           => ~Passed

\* The same states under different keys at both positions, compared with
\* every selector of the default preset: equal
C40_Witness ==
    /\ call.api = "compare_with_config"
    /\ call.config_file = None
    /\ Len(call.a.resulting_accounts) = 2
    /\ SameStatesAtPositions
    /\ \A i \in 1..2 :
          call.a.resulting_accounts[i].key # call.b.resulting_accounts[i].key
    /\ Passed

\* A selector that lists Alice: a holds Alice's state first, b holds another
\* state under Bob's key first, and the pair is compared
C40_WitnessFilterOnA ==
    /\ call.api = "compare_with_config"
    /\ call.checks = <<only_resulting_accounts(<<Alice>>)>>
    /\ call.a.resulting_accounts[1].key = Alice
    /\ \A i \in 1..Len(call.b.resulting_accounts) :
          call.b.resulting_accounts[i].key # Alice
    /\ ~Passed

\* The same selector when only b holds Alice: nothing is compared
C40_WitnessKeyOfBNotRead ==
    /\ call.api = "compare_with_config"
    /\ call.checks = <<only_resulting_accounts(<<Alice>>)>>
    /\ Len(call.a.resulting_accounts) = 1
    /\ call.a.resulting_accounts[1].key = Bob
    /\ call.b.resulting_accounts[1].key = Alice
    /\ ~SameStatesAtPositions
    /\ Passed

====
